---------------------------- MODULE Spec2Model ----------------------------
(***************************************************************************)
(* A model of the chrusty style resolver (src/src/style.rs, cssom.rs,      *)
(* dom.rs) and block layout engine (src/src/layout.rs).                    *)
(*                                                                         *)
(* Rust values are written as follows.                                     *)
(*   String          a sequence of one-character strings                   *)
(*   Option<T>       << >> for None, <<v>> for Some(v)                     *)
(*   Vec<T>          a sequence                                            *)
(*   HashMap<K, V>   a function whose DOMAIN is the key set                *)
(*   u32             a natural number below 2^32                           *)
(***************************************************************************)
EXTENDS Integers, Sequences, FiniteSets, TLC

VARIABLES
    \* selector matching
    element,                \* the ElementData under consideration
    selector,               \* Option<SimpleSelector> last matched against it
    matched,                \* result of matches_simple_selector
    \* cascade (get_specified_values)
    stylesheet,             \* Stylesheet.rules
    matched_rules,          \* Vec<(CSSSpecifity, &CSSRule)> after the sort
    rule_i,                 \* position of the outer loop (rule)
    decl_i,                 \* position of the inner loop (declaration)
    specified_values,       \* HashMap<CSSProperty, CSSValue>
    specified_is_important, \* HashMap<CSSProperty, bool>
    pc,                     \* control position of the running operation
    lookup,                 \* last get_computed_value or get_computed_display call
    \* box tree construction and layout
    dom,                    \* the DomNode tree handed to the style resolver
    styled,                 \* the StyledNode tree handed to the layout engine
    layout_root,            \* generate_layout_tree's result, then laid out
    build,                  \* "debug" or "release" (integer overflow checks)
    \* CSS parser and printer
    input,                  \* CSSParser.input, a String
    printed                 \* Stylesheet::to_string of the parsed stylesheet

matchVars   == <<selector, matched>>
cascadeVars == <<stylesheet, matched_rules, rule_i, decl_i,
                 specified_values, specified_is_important, lookup>>
layoutVars  == <<dom, styled, layout_root, build>>
parserVars  == <<input, printed>>
vars == <<element, matchVars, cascadeVars, pc, layoutVars, parserVars>>

---------------------------------------------------------------------------
(* Bounds of the model *)

MaxAttrLen == 3       \* longest class attribute string
MaxSelectorClasses == 2   \* most classes in one generated selector
MaxTreeNodes == 5     \* most nodes of a document whose box tree is built
MaxLayoutNodes == 4   \* most nodes of a document that is laid out
MaxGeometryNodes == 3 \* most nodes of a document of the error cases
MaxDisplayNodes == 3  \* most nodes of a document whose displays are computed
MaxStyleNodes == 3    \* most nodes of a document that is styled
MaxCssRules == 3      \* most rules of a stylesheet text that is parsed
MaxRules == 2         \* most rules added to the stylesheet

---------------------------------------------------------------------------
(* Generic helpers *)

None == << >>
Some(v) == <<v>>
IsSome(o) == Len(o) = 1
Unwrap(o) == o[1]

Range(s) == {s[i] : i \in 1..Len(s)}

SeqsUpTo(S, n) == UNION {[1..k -> S] : k \in 0..n}

EmptyMap == [k \in {} |-> 0]

\* HashMap::insert
MapInsert(m, k, v) == [x \in DOMAIN m \cup {k} |-> IF x = k THEN v ELSE m[x]]

---------------------------------------------------------------------------
(* dom.rs *)

TagType == {"html", "div", "p", "style", "span"}

\* ElementData::id
ElementId(elem) ==
    IF "id" \in DOMAIN elem.attributes THEN Some(elem.attributes["id"]) ELSE None

\* str::split(' '): the pieces between single spaces, empty pieces included
RECURSIVE SplitSpace(_, _, _)
SplitSpace(s, i, cur) ==
    IF i > Len(s) THEN <<cur>>
    ELSE IF s[i] = " " THEN <<cur>> \o SplitSpace(s, i + 1, << >>)
    ELSE SplitSpace(s, i + 1, Append(cur, s[i]))

\* ElementData::classes
ElementClasses(elem) ==
    IF "class" \in DOMAIN elem.attributes
    THEN Range(SplitSpace(elem.attributes["class"], 1, << >>))
    ELSE {}

---------------------------------------------------------------------------
(* cssom.rs *)

CSSProperty == {"display", "padding", "background", "color", "width", "height"}

Keyword(s) == [kind |-> "Keyword", s |-> s]
Dimension(n, unit) == [kind |-> "Dimension", n |-> n, unit |-> unit]
\* CSSValue::Color(ColorData::Rgb(..))
Rgb(r, g, b) == [kind |-> "Color", data |-> [kind |-> "Rgb", r |-> r, g |-> g, b |-> b]]

\* new_css_selector
new_css_selector(tag, class, id) == [tag |-> tag, id |-> id, class |-> class]

\* new_css_declaration
new_css_declaration(property, value, is_important) ==
    [property |-> property, value |-> value, is_important |-> is_important]

\* new_css_rule
new_css_rule(selectors, declarations) ==
    [selectors |-> selectors, declarations |-> declarations]

\* CSSSelector::specificity: (ids, classes, tags)
Specificity(sel) == <<Len(sel.id), Len(sel.class), Len(sel.tag)>>

\* a comparison that looks at the class count before the id count
CmpSpecificity_ClassesFirst(a, b) ==
    IF a[2] # b[2] THEN (IF a[2] < b[2] THEN "Less" ELSE "Greater")
    ELSE IF a[1] # b[1] THEN (IF a[1] < b[1] THEN "Less" ELSE "Greater")
    ELSE IF a[3] # b[3] THEN (IF a[3] < b[3] THEN "Less" ELSE "Greater")
    ELSE "Equal"

\* Ord for (usize, usize, usize): lexicographic
CmpSpecificity(a, b) ==
    IF a[1] # b[1] THEN (IF a[1] < b[1] THEN "Less" ELSE "Greater")
    ELSE IF a[2] # b[2] THEN (IF a[2] < b[2] THEN "Less" ELSE "Greater")
    ELSE IF a[3] # b[3] THEN (IF a[3] < b[3] THEN "Less" ELSE "Greater")
    ELSE "Equal"

\* CSSProperty::default_value
DefaultValue(property) ==
    CASE property = "display"    -> Keyword("block")
      [] property = "padding"    -> Dimension(0, "px")
      [] property = "background" -> Keyword("transparent")
      [] property = "color"      -> Keyword("black")
      [] property = "width"      -> Keyword("auto")
      [] property = "height"     -> Keyword("auto")

---------------------------------------------------------------------------
(* style.rs: selector matching *)

\* a match that checks the id only of an element that has one
MatchesSimpleSelector_IdIfPresent(elem, sel) ==
    IF \E i \in 1..Len(sel.tag) : elem.tag_type # sel.tag[i] THEN FALSE
    ELSE IF \E i \in 1..Len(sel.id) :
                IsSome(ElementId(elem)) /\ ElementId(elem) # Some(sel.id[i])
         THEN FALSE
    ELSE IF \E i \in 1..Len(sel.class) : sel.class[i] \notin ElementClasses(elem)
         THEN FALSE
    ELSE TRUE

\* matches_simple_selector
MatchesSimpleSelector(elem, sel) ==
    IF \E i \in 1..Len(sel.tag) : elem.tag_type # sel.tag[i] THEN FALSE
    ELSE IF \E i \in 1..Len(sel.id) : ElementId(elem) # Some(sel.id[i]) THEN FALSE
    ELSE IF \E i \in 1..Len(sel.class) : sel.class[i] \notin ElementClasses(elem)
         THEN FALSE
    ELSE TRUE

\* matches: CSSSelector has the single variant SimpleSelector
Matches(elem, sel) == MatchesSimpleSelector(elem, sel)

\* slice::sort_by with |a, b| b.cmp(a): stable, descending
SortDescending(s) ==
    LET n == Len(s)
        before(j, i) == \/ CmpSpecificity(s[j], s[i]) = "Greater"
                        \/ CmpSpecificity(s[j], s[i]) = "Equal" /\ j < i
        rank(i) == 1 + Cardinality({j \in 1..n : before(j, i)})
    IN  [r \in 1..n |-> s[CHOOSE i \in 1..n : rank(i) = r]]

\* the specificities of the selectors of a rule that match the element
MatchedSpecificities(elem, rule) ==
    LET F[i \in 0..Len(rule.selectors)] ==
            IF i = 0 THEN << >>
            ELSE IF Matches(elem, rule.selectors[i])
                 THEN Append(F[i - 1], Specificity(rule.selectors[i]))
                 ELSE F[i - 1]
    IN  F[Len(rule.selectors)]

\* a matches_rule that ranks a matching rule by the highest specificity among
\* all of its selectors, matching or not
MatchesRule_AllSelectors(elem, rule) ==
    LET all == SortDescending([i \in 1..Len(rule.selectors) |->
                                  Specificity(rule.selectors[i])])
    IN  IF Len(MatchedSpecificities(elem, rule)) = 0 THEN None ELSE Some(all[1])

\* matches_rule: the highest specificity among the matching selectors
MatchesRule(elem, rule) ==
    LET sorted == SortDescending(MatchedSpecificities(elem, rule))
    IN  IF Len(sorted) = 0 THEN None ELSE Some(sorted[1])

---------------------------------------------------------------------------
(* style.rs: the cascade of get_specified_values *)

\* the (specificity, rule) pairs of the rules that match, in stylesheet order
\* (map + filter_map over stylesheet.rules)
CollectMatchedRules(elem, rules) ==
    LET F[i \in 0..Len(rules)] ==
            IF i = 0 THEN << >>
            ELSE LET m == MatchesRule(elem, rules[i])
                 IN  IF IsSome(m)
                     THEN Append(F[i - 1], [specificity |-> Unwrap(m), rule |-> rules[i]])
                     ELSE F[i - 1]
    IN  F[Len(rules)]

\* a sort that reverses the rules of equal specificity
SortMatchedRules_Unstable(s) ==
    LET n == Len(s)
        before(j, i) ==
            \/ CmpSpecificity(s[j].specificity, s[i].specificity) = "Less"
            \/ CmpSpecificity(s[j].specificity, s[i].specificity) = "Equal" /\ j > i
        rank(i) == 1 + Cardinality({j \in 1..n : before(j, i)})
    IN  [r \in 1..n |-> s[CHOOSE i \in 1..n : rank(i) = r]]

\* slice::sort_by with |a, b| a.0.cmp(&b.0): stable, ascending by specificity
SortMatchedRules(s) ==
    LET n == Len(s)
        before(j, i) ==
            \/ CmpSpecificity(s[j].specificity, s[i].specificity) = "Less"
            \/ CmpSpecificity(s[j].specificity, s[i].specificity) = "Equal" /\ j < i
        rank(i) == 1 + Cardinality({j \in 1..n : before(j, i)})
    IN  [r \in 1..n |-> s[CHOOSE i \in 1..n : rank(i) = r]]

\* a loop body without the !important guard
ApplyDeclaration_NoGuard(values, important, decl) ==
    [values    |-> MapInsert(values, decl.property, decl.value),
     important |-> MapInsert(important, decl.property, decl.is_important)]

\* a loop body whose guard skips every declaration of a property whose
\* applied declaration is !important
ApplyDeclaration_GuardAll(values, important, decl) ==
    IF /\ decl.property \in DOMAIN important
       /\ important[decl.property]
    THEN [values |-> values, important |-> important]
    ELSE [values    |-> MapInsert(values, decl.property, decl.value),
          important |-> MapInsert(important, decl.property, decl.is_important)]

\* a loop body that records a flag for the !important declarations only
ApplyDeclaration_FlagsImportantOnly(values, important, decl) ==
    IF /\ decl.property \in DOMAIN important
       /\ ~decl.is_important
       /\ important[decl.property]
    THEN [values |-> values, important |-> important]
    ELSE [values    |-> MapInsert(values, decl.property, decl.value),
          important |-> IF decl.is_important
                        THEN MapInsert(important, decl.property, TRUE)
                        ELSE important]

\* the body of the inner loop: one declaration met by the walk
ApplyDeclaration(values, important, decl) ==
    IF /\ decl.property \in DOMAIN important
       /\ ~decl.is_important
       /\ important[decl.property]
    THEN [values |-> values, important |-> important]
    ELSE [values    |-> MapInsert(values, decl.property, decl.value),
          important |-> MapInsert(important, decl.property, decl.is_important)]

\* the declarations of the sorted matched rules in the order the two loops
\* meet them
CascadeOrder(sorted) ==
    LET F[i \in 0..Len(sorted)] ==
            IF i = 0 THEN << >> ELSE F[i - 1] \o sorted[i].rule.declarations
    IN  F[Len(sorted)]

\* the loop position that follows (i, j): the next declaration of rule i, or
\* the first declaration of the next rule that has one
RECURSIVE SkipEmptyRules(_, _)
SkipEmptyRules(sorted, i) ==
    IF i > Len(sorted) THEN i
    ELSE IF Len(sorted[i].rule.declarations) = 0 THEN SkipEmptyRules(sorted, i + 1)
    ELSE i

\* a lookup without the fallback to the default
GetComputedValue_NoDefault(styled_node, name) ==
    IF name \in DOMAIN styled_node.specified_values
    THEN Some(styled_node.specified_values[name])
    ELSE None

\* StyledNode::get_computed_value
GetComputedValue(styled_node, name) ==
    IF name \in DOMAIN styled_node.specified_values
    THEN Some(styled_node.specified_values[name])
    ELSE Some(DefaultValue(name))

---------------------------------------------------------------------------
(* Inputs of the model *)

IdTest  == <<"t", "e", "s", "t">>
IdOther == <<"x">>
ClassA  == <<"a">>
ClassB  == <<"b">>

\* attribute maps of the elements matched against selectors
MatchAttributes ==
    LET ids     == {None, Some(IdTest), Some(IdOther)}
        classes == {None} \cup {Some(c) : c \in SeqsUpTo({"a", "b", " "}, MaxAttrLen)}
    IN  {[k \in (IF IsSome(i) THEN {"id"} ELSE {}) \cup
                (IF IsSome(c) THEN {"class"} ELSE {})
            |-> IF k = "id" THEN Unwrap(i) ELSE Unwrap(c)] : i \in ids, c \in classes}

MatchElements ==
    {[tag_type |-> t, attributes |-> a] : t \in TagType, a \in MatchAttributes}

MatchSelectors ==
    {new_css_selector(t, c, i) :
        t \in {None} \cup {Some(x) : x \in TagType},
        c \in SeqsUpTo({ClassA, ClassB}, MaxSelectorClasses),
        i \in {None, Some(IdTest)}}

\* elements whose style is resolved
ElemP     == [tag_type |-> "p",
              attributes |-> [id |-> IdTest, class |-> <<"a", " ", "b">>]]
ElemDiv   == [tag_type |-> "div", attributes |-> [class |-> <<"a">>]]
ElemStyle == [tag_type |-> "style", attributes |-> [id |-> IdTest]]
CascadeElements == {ElemP, ElemDiv, ElemStyle}

SelTagP   == new_css_selector(Some("p"), << >>, None)
SelTagDiv == new_css_selector(Some("div"), << >>, None)
SelA      == new_css_selector(None, <<ClassA>>, None)
SelAB     == new_css_selector(None, <<ClassA, ClassB>>, None)
SelId     == new_css_selector(None, << >>, Some(IdTest))

SelectorLists == {<<SelTagP>>, <<SelA>>, <<SelAB>>, <<SelId>>, <<SelId, SelTagDiv>>}

DeclLists ==
    { <<new_css_declaration("color", Keyword("red"), FALSE)>>,
      <<new_css_declaration("color", Keyword("blue"), FALSE),
        new_css_declaration("display", Keyword("none"), FALSE)>>,
      <<new_css_declaration("color", Keyword("green"), TRUE)>>,
      <<new_css_declaration("color", Keyword("blue"), TRUE),
        new_css_declaration("color", Keyword("red"), FALSE)>> }

Rules ==
    {new_css_rule(s, d) : s \in SelectorLists, d \in DeclLists}
    \cup {new_css_rule(<< >>, << >>),
          new_css_rule(<<SelA>>, << >>),
          new_css_rule(<< >>, <<new_css_declaration("color", Keyword("red"), FALSE)>>)}

---------------------------------------------------------------------------
(* Initial states *)

IdleParser == input = << >> /\ printed = None

IdleMatch == selector = None /\ matched = FALSE

IdleCascade ==
    /\ stylesheet = << >>
    /\ matched_rules = << >>
    /\ rule_i = 0
    /\ decl_i = 0
    /\ specified_values = EmptyMap
    /\ specified_is_important = EmptyMap
    /\ lookup = None

IdleLayout == dom = None /\ styled = None /\ layout_root = None /\ build = "debug"

InitMatch ==
    /\ IdleParser
    /\ element \in MatchElements
    /\ pc = "match"
    /\ IdleMatch /\ IdleCascade /\ IdleLayout

\* Stylesheet::new(vec![]) and an element to resolve
Init ==
    /\ IdleParser
    /\ element \in CascadeElements
    /\ pc = "build"
    /\ IdleMatch /\ IdleCascade /\ IdleLayout

---------------------------------------------------------------------------
(* Actions: selector matching *)

\* one call of matches_simple_selector
MatchSelector ==
    /\ pc = "match"
    /\ \E sel \in MatchSelectors :
          /\ selector' = Some(sel)
          /\ matched' = MatchesSimpleSelector(element, sel)
    /\ pc' = "matched"
    /\ UNCHANGED <<parserVars, element, cascadeVars, layoutVars>>

---------------------------------------------------------------------------
(* Actions: the cascade *)

\* Stylesheet::add_rule
AddRule ==
    /\ pc = "build"
    /\ Len(stylesheet) < MaxRules
    /\ \E rule \in Rules : stylesheet' = Append(stylesheet, rule)
    /\ UNCHANGED <<parserVars, element, matchVars, matched_rules, rule_i, decl_i,
                   specified_values, specified_is_important, lookup, pc, layoutVars>>

\* get_specified_values up to the loops: a style element returns the empty
\* map at once, any other element collects and sorts its matching rules
BeginCascade ==
    /\ pc = "build"
    /\ specified_values' = EmptyMap
    /\ specified_is_important' = EmptyMap
    /\ decl_i' = 1
    /\ IF element.tag_type = "style"
       THEN /\ matched_rules' = << >>
            /\ rule_i' = 1
            /\ pc' = "done"
       ELSE LET sorted == SortMatchedRules(CollectMatchedRules(element, stylesheet))
            IN  /\ matched_rules' = sorted
                /\ rule_i' = SkipEmptyRules(sorted, 1)
                /\ pc' = "walk"
    /\ UNCHANGED <<parserVars, element, matchVars, stylesheet, lookup, layoutVars>>

\* the declaration the walk is at
CurrentDeclaration == matched_rules[rule_i].rule.declarations[decl_i]

\* one iteration of the inner loop
WalkDeclaration ==
    /\ pc = "walk"
    /\ rule_i <= Len(matched_rules)
    /\ LET r == ApplyDeclaration(specified_values, specified_is_important,
                                 CurrentDeclaration)
       IN  /\ specified_values' = r.values
           /\ specified_is_important' = r.important
    /\ IF decl_i < Len(matched_rules[rule_i].rule.declarations)
       THEN /\ decl_i' = decl_i + 1
            /\ rule_i' = rule_i
       ELSE /\ decl_i' = 1
            /\ rule_i' = SkipEmptyRules(matched_rules, rule_i + 1)
    /\ UNCHANGED <<parserVars, element, matchVars, stylesheet, matched_rules, lookup, pc,
                   layoutVars>>

\* the loops are over: specified_values is returned
FinishCascade ==
    /\ pc = "walk"
    /\ rule_i > Len(matched_rules)
    /\ pc' = "done"
    /\ UNCHANGED <<parserVars, element, matchVars, cascadeVars, layoutVars>>

Next == AddRule \/ BeginCascade \/ WalkDeclaration \/ FinishCascade

Spec == Init /\ [][Next]_vars

NextMatch == MatchSelector

SpecMatch == InitMatch /\ [][NextMatch]_vars

---------------------------------------------------------------------------
(* Vocabulary of the properties of the cascade *)

\* triple a is lexicographically higher than triple b
LexHigher(a, b) ==
    \/ a[1] > b[1]
    \/ a[1] = b[1] /\ a[2] > b[2]
    \/ a[1] = b[1] /\ a[2] = b[2] /\ a[3] > b[3]

\* the selectors of rule k of the stylesheet that match the element
MatchingSelectors(k) ==
    {sel \in Range(stylesheet[k].selectors) : MatchesSimpleSelector(element, sel)}

\* the rules of the stylesheet that match the element, by position
MatchingRules == {k \in 1..Len(stylesheet) : MatchingSelectors(k) # {}}

\* the specificity of a matching rule: the highest of its matching selectors
RuleSpecificity(k) ==
    LET S == {<<Len(sel.id), Len(sel.class), Len(sel.tag)>> : sel \in MatchingSelectors(k)}
    IN  CHOOSE a \in S : \A b \in S : ~LexHigher(b, a)

\* the positions of the declarations of property p in rule k
DeclsOf(k, p) ==
    {d \in 1..Len(stylesheet[k].declarations) : stylesheet[k].declarations[d].property = p}

Max(S) == CHOOSE x \in S : \A y \in S : y <= x

\* the matching rules that declare p
Declaring(p) == {k \in MatchingRules : DeclsOf(k, p) # {}}

\* the value rule k gives p: that of its last declaration of p
ValueOf(k, p) == stylesheet[k].declarations[Max(DeclsOf(k, p))].value

\* some matching rule declares p as !important
ImportantInvolved(p) ==
    \E k \in Declaring(p) : \E d \in DeclsOf(k, p) :
        stylesheet[k].declarations[d].is_important

\* the !important declarations of p in the matching rules, as <<rule, position>>
ImportantDecls(p) ==
    UNION {{<<k, d>> : d \in {e \in DeclsOf(k, p) :
                                 stylesheet[k].declarations[e].is_important}} :
           k \in MatchingRules}

\* declaration x comes after declaration y in cascade order: ascending
\* specificity, then rule order, then declaration order
CascadeAfter(x, y) ==
    \/ LexHigher(RuleSpecificity(x[1]), RuleSpecificity(y[1]))
    \/ /\ RuleSpecificity(x[1]) = RuleSpecificity(y[1])
       /\ \/ x[1] > y[1]
          \/ x[1] = y[1] /\ x[2] > y[2]

Resolved == pc = "done" /\ element.tag_type # "style"

\* the number of declarations the walk has met so far
WalkedCount ==
    LET F[i \in 0..Len(matched_rules)] ==
            IF i = 0 THEN 0 ELSE F[i - 1] + Len(matched_rules[i].rule.declarations)
    IN  IF rule_i > Len(matched_rules) THEN F[Len(matched_rules)]
        ELSE F[rule_i - 1] + decl_i - 1

\* the declaration the walk met last
LastWalked == CascadeOrder(matched_rules)[WalkedCount]

---------------------------------------------------------------------------
(* Properties of the cascade *)

\* C1: when no matching rule declares p as !important and one matching rule
\* that declares p has a specificity lexicographically higher than every
\* other matching rule that declares p, the resolved value of p is that
\* rule's, wherever the rule stands in the stylesheet.
C1_HigherSpecificityWins ==
    Resolved =>
        \A p \in CSSProperty : \A hi \in Declaring(p) :
            ( /\ ~ImportantInvolved(p)
              /\ \A lo \in Declaring(p) \ {hi} :
                    LexHigher(RuleSpecificity(hi), RuleSpecificity(lo)) )
            => /\ p \in DOMAIN specified_values
               /\ specified_values[p] = ValueOf(hi, p)

\* a rule of specificity (1,0,0) placed before a rule of specificity (0,2,0),
\* both declaring color without !important, with different values
C1_Witness ==
    /\ Resolved
    /\ \E hi, lo \in Declaring("color") :
          /\ hi < lo
          /\ RuleSpecificity(hi) = <<1, 0, 0>>
          /\ RuleSpecificity(lo) = <<0, 2, 0>>
          /\ ~ImportantInvolved("color")
          /\ ValueOf(hi, "color") # ValueOf(lo, "color")
          /\ specified_values["color"] = ValueOf(hi, "color")

\* C2: when no matching rule declares p as !important and the highest
\* specificity among the matching rules that declare p is shared, the
\* resolved value of p is that of the rule among them that stands last in
\* the stylesheet.
C2_LaterRuleWinsTie ==
    Resolved =>
        \A p \in CSSProperty : \A a, b \in Declaring(p) :
            ( /\ ~ImportantInvolved(p)
              /\ a < b
              /\ RuleSpecificity(a) = RuleSpecificity(b)
              /\ \A c \in Declaring(p) :
                    /\ ~LexHigher(RuleSpecificity(c), RuleSpecificity(b))
                    /\ RuleSpecificity(c) = RuleSpecificity(b) => c <= b )
            => /\ p \in DOMAIN specified_values
               /\ specified_values[p] = ValueOf(b, p)

C2_Witness ==
    /\ Resolved
    /\ \E a, b \in Declaring("color") :
          /\ a < b
          /\ RuleSpecificity(a) = RuleSpecificity(b)
          /\ ~ImportantInvolved("color")
          /\ ValueOf(a, "color") # ValueOf(b, "color")
          /\ specified_values["color"] = ValueOf(b, "color")

\* C3: a step of the walk that meets a declaration that is not !important
\* leaves the value of every property whose applied declaration is
\* !important as it is.
C3_NonImportantNeverOverwrites ==
    [][ \A p \in DOMAIN specified_is_important :
            ( /\ pc = "walk"
              /\ rule_i <= Len(matched_rules)
              /\ specified_is_important[p]
              /\ ~CurrentDeclaration.is_important )
            => /\ p \in DOMAIN specified_values'
               /\ specified_values'[p] = specified_values[p]
               /\ specified_is_important'[p] ]_vars

\* the walk has just met a declaration of color that is not !important, of a
\* rule of higher specificity than the first rule, and color keeps another,
\* !important value
C3_Witness ==
    /\ pc \in {"walk", "done"}
    /\ WalkedCount >= 2
    /\ LastWalked.property = "color"
    /\ ~LastWalked.is_important
    /\ specified_is_important["color"]
    /\ specified_values["color"] # LastWalked.value
    /\ Len(matched_rules) = 2
    /\ rule_i > 2
    /\ LexHigher(matched_rules[2].specificity, matched_rules[1].specificity)

\* the same within one rule: a later declaration of the rule is skipped
C3_WitnessSameRule ==
    /\ pc \in {"walk", "done"}
    /\ Len(matched_rules) = 1
    /\ WalkedCount = 2
    /\ ~LastWalked.is_important
    /\ specified_is_important[LastWalked.property]
    /\ specified_values[LastWalked.property] # LastWalked.value

\* C4: a step of the walk that meets an !important declaration sets the
\* value of its property to the declaration's value; and when some matching
\* rule declares p as !important, the resolved value of p is that of the
\* !important declaration of p that comes last in cascade order.
C4_ImportantAlwaysOverwrites ==
    /\ [][ ( /\ pc = "walk"
             /\ rule_i <= Len(matched_rules)
             /\ CurrentDeclaration.is_important )
           => /\ CurrentDeclaration.property \in DOMAIN specified_values'
              /\ specified_values'[CurrentDeclaration.property]
                    = CurrentDeclaration.value
              /\ specified_is_important'[CurrentDeclaration.property] ]_vars
    /\ [] ( Resolved =>
              \A p \in CSSProperty : \A x \in ImportantDecls(p) :
                  (\A y \in ImportantDecls(p) \ {x} : CascadeAfter(x, y))
                  => /\ p \in DOMAIN specified_values
                     /\ specified_values[p]
                           = stylesheet[x[1]].declarations[x[2]].value )

\* two !important declarations of color with different values, the one of
\* the more specific rule standing first in the stylesheet, and a declaration
\* of color that is not !important in between or after
C4_Witness ==
    /\ Resolved
    /\ \E x, y \in ImportantDecls("color") :
          /\ x[1] < y[1]
          /\ LexHigher(RuleSpecificity(x[1]), RuleSpecificity(y[1]))
          /\ stylesheet[x[1]].declarations[x[2]].value
                # stylesheet[y[1]].declarations[y[2]].value
          /\ specified_values["color"] = stylesheet[x[1]].declarations[x[2]].value

---------------------------------------------------------------------------
(* Properties of selector matching *)

\* the pieces of s between spaces: every stretch without a space that is
\* bounded on both sides by a space or by an end of s
Tokens(s) ==
    UNION {{SubSeq(s, i, e) : e \in {j \in (i - 1)..Len(s) :
                /\ \A k \in i..j : s[k] # " "
                /\ i = 1 \/ s[i - 1] = " "
                /\ j = Len(s) \/ s[j + 1] = " "}} : i \in 1..Len(s) + 1}

\* C5: a simple selector matches an element iff its tag is absent or is the
\* element's, its id is absent or is the element's id attribute, and each of
\* its classes is a token of the element's class attribute; so #test matches
\* every element whose id is test.
C5_MatchIff ==
    pc = "matched" =>
        LET sel == Unwrap(selector)
            tokens == IF "class" \in DOMAIN element.attributes
                      THEN Tokens(element.attributes["class"]) ELSE {}
        IN  /\ matched <=>
                  /\ sel.tag = None \/ sel.tag = Some(element.tag_type)
                  /\ \/ sel.id = None
                     \/ /\ "id" \in DOMAIN element.attributes
                        /\ sel.id = Some(element.attributes["id"])
                  /\ \A i \in 1..Len(sel.class) : sel.class[i] \in tokens
            /\ ( /\ sel = new_css_selector(None, << >>, Some(IdTest))
                 /\ "id" \in DOMAIN element.attributes
                 /\ element.attributes["id"] = IdTest ) => matched

\* #test matched against a span with id test and classes
C5_Witness ==
    /\ pc = "matched"
    /\ Unwrap(selector) = new_css_selector(None, << >>, Some(IdTest))
    /\ element.tag_type = "span"
    /\ element.attributes = [id |-> IdTest, class |-> <<"a", " ", "b">>]
    /\ matched

\* a selector with two classes matched against an element that carries both
\* among the tokens of its class attribute
C5_WitnessClasses ==
    /\ pc = "matched"
    /\ Unwrap(selector).class = <<ClassA, ClassB>>
    /\ "class" \in DOMAIN element.attributes
    /\ element.attributes["class"] = <<"b", " ", "a">>
    /\ matched

---------------------------------------------------------------------------
(* dom.rs and style.rs: trees *)

\* new_element
new_element(tag_type, attributes, children) ==
    [node_type |-> [kind |-> "Element", tag_type |-> tag_type,
                    attributes |-> attributes],
     children  |-> children]

\* new_text
new_text(content, children) ==
    [node_type |-> [kind |-> "Text", content |-> content], children |-> children]

\* DomNode::get_tag_type
GetTagType(node) ==
    IF node.node_type.kind = "Element" THEN Some(node.node_type.tag_type) ELSE None

\* a get_specified_values that resolves a style element like any other
GetSpecifiedValues_StyleResolved(node, rules) ==
    IF node.node_type.kind = "Text" THEN EmptyMap
    ELSE LET order == CascadeOrder(
                          SortMatchedRules(CollectMatchedRules(node.node_type, rules)))
             F[i \in 0..Len(order)] ==
                 IF i = 0 THEN [values |-> EmptyMap, important |-> EmptyMap]
                 ELSE ApplyDeclaration(F[i - 1].values, F[i - 1].important, order[i])
         IN  F[Len(order)].values

\* get_specified_values: the value map the two loops leave
GetSpecifiedValues(node, rules) ==
    IF node.node_type.kind = "Text" THEN EmptyMap
    ELSE IF node.node_type.tag_type = "style" THEN EmptyMap
    ELSE LET order == CascadeOrder(
                          SortMatchedRules(CollectMatchedRules(node.node_type, rules)))
             F[i \in 0..Len(order)] ==
                 IF i = 0 THEN [values |-> EmptyMap, important |-> EmptyMap]
                 ELSE ApplyDeclaration(F[i - 1].values, F[i - 1].important, order[i])
         IN  F[Len(order)].values

\* a styled tree in which a node starts from its parent's property map
RECURSIVE InheritingStyledNode(_, _, _)
InheritingStyledNode(node, rules, inherited) ==
    LET own    == GetSpecifiedValues(node, rules)
        values == [p \in DOMAIN inherited \cup DOMAIN own |->
                      IF p \in DOMAIN own THEN own[p] ELSE inherited[p]]
    IN  [node             |-> node,
         specified_values |-> values,
         children         |-> [i \in 1..Len(node.children) |->
                                  InheritingStyledNode(node.children[i], rules, values)]]

GenerateStyledNode_Inherits(node, rules) == InheritingStyledNode(node, rules, EmptyMap)

\* a generate_styled_node that leaves the Text children out
RECURSIVE GenerateStyledNode_ElementsOnly(_, _)
GenerateStyledNode_ElementsOnly(node, rules) ==
    LET elements == SelectSeq(node.children, LAMBDA c : c.node_type.kind = "Element")
    IN  [node             |-> node,
         specified_values |-> GetSpecifiedValues(node, rules),
         children         |-> [i \in 1..Len(elements) |->
                                  GenerateStyledNode_ElementsOnly(elements[i], rules)]]

\* generate_styled_node
RECURSIVE GenerateStyledNode(_, _)
GenerateStyledNode(node, rules) ==
    [node             |-> node,
     specified_values |-> GetSpecifiedValues(node, rules),
     children         |-> [i \in 1..Len(node.children) |->
                              GenerateStyledNode(node.children[i], rules)]]

\* get_computed_display that looks at the `display` value before the tag
GetComputedDisplay_ValueFirst(styled_node) ==
    LET value == GetComputedValue(styled_node, "display")
    IN  IF value = Some(Keyword("inline")) THEN "Inline"
        ELSE IF value = Some(Keyword("none")) THEN "None"
        ELSE IF GetTagType(styled_node.node) = Some("span") THEN "Inline"
        ELSE "Block"

\* get_computed_display that drops every node whose `display` is not one of
\* the keywords it knows
GetComputedDisplay_UnknownIsNone(styled_node) ==
    IF GetTagType(styled_node.node) = Some("span") THEN "Inline"
    ELSE LET value == GetComputedValue(styled_node, "display")
         IN  IF value = Some(Keyword("inline")) THEN "Inline"
             ELSE IF value = Some(Keyword("block")) THEN "Block"
             ELSE "None"

\* StyledNode::get_computed_display
GetComputedDisplay(styled_node) ==
    IF GetTagType(styled_node.node) = Some("span") THEN "Inline"
    ELSE LET value == GetComputedValue(styled_node, "display")
         IN  IF value = Some(Keyword("inline")) THEN "Inline"
             ELSE IF value = Some(Keyword("none")) THEN "None"
             ELSE "Block"

---------------------------------------------------------------------------
(* get_computed_value on its own *)

\* the values a property map may hold for each property
SampleValues(p) ==
    CASE p = "display"    -> {Keyword("none"), Keyword("inline")}
      [] p = "padding"    -> {Dimension(10, "px"), Keyword("auto")}
      [] p = "background" -> {Keyword("blue"), Keyword("red")}
      [] p = "color"      -> {Keyword("blue"), Keyword("red")}
      [] p = "width"      -> {Dimension(100, "px"), Dimension(50, "percent")}
      [] p = "height"     -> {Dimension(100, "px"), Keyword("auto")}

PropertyMaps ==
    UNION {{m \in [D -> UNION {SampleValues(p) : p \in D}] :
                \A p \in D : m[p] \in SampleValues(p)} : D \in SUBSET CSSProperty}

InitValue ==
    /\ IdleParser
    /\ element = [tag_type |-> "div", attributes |-> EmptyMap]
    /\ pc = "value"
    /\ dom = Some(new_element("div", EmptyMap, << >>))
    /\ \E m \in PropertyMaps :
          styled = Some([node |-> Unwrap(dom), specified_values |-> m,
                         children |-> << >>])
    /\ layout_root = None /\ build = "debug"
    /\ IdleMatch /\ IdleCascade

\* one call of get_computed_value
GetComputed ==
    /\ pc = "value"
    /\ \E name \in CSSProperty :
          lookup' = Some([name |-> name,
                          result |-> GetComputedValue(Unwrap(styled), name)])
    /\ pc' = "looked"
    /\ UNCHANGED <<parserVars, element, matchVars, stylesheet, matched_rules, rule_i, decl_i,
                   specified_values, specified_is_important, layoutVars>>

NextValue == GetComputed

SpecValue == InitValue /\ [][NextValue]_vars

\* C6: get_computed_value returns a value for every styled node and every
\* property: the value of the property map when the map has the property,
\* and the default of the property, the same for every node, when it has not.
C6_ComputedValueNeverAbsent ==
    pc = "looked" =>
        LET call == Unwrap(lookup)
            map  == Unwrap(styled).specified_values
        IN  /\ IsSome(call.result)
            /\ call.name \in DOMAIN map => Unwrap(call.result) = map[call.name]
            /\ call.name \notin DOMAIN map
                  => Unwrap(call.result) = DefaultValue(call.name)

\* a lookup of a property the map has not, and one of a property it has
C6_Witness ==
    /\ pc = "looked"
    /\ Unwrap(lookup).name = "width"
    /\ "width" \notin DOMAIN Unwrap(styled).specified_values
    /\ "padding" \in DOMAIN Unwrap(styled).specified_values
    /\ IsSome(Unwrap(lookup).result)

C6_WitnessExplicit ==
    /\ pc = "looked"
    /\ Unwrap(lookup).name = "color"
    /\ "color" \in DOMAIN Unwrap(styled).specified_values
    /\ Unwrap(lookup).result = Some(Keyword("red"))

\* the walk of the cascade leaves the map get_specified_values returns
WalkComputesSpecifiedValues ==
    pc = "done" =>
        specified_values =
            GetSpecifiedValues(new_element(element.tag_type, element.attributes, << >>),
                               stylesheet)

---------------------------------------------------------------------------
(* layout.rs: construction of the box tree *)

\* Default for Rect, EdgeSizes and Dimensions
DefaultRect == [x |-> 0, y |-> 0, width |-> 0, height |-> 0]
DefaultEdgeSizes == [left |-> 0, right |-> 0, top |-> 0, bottom |-> 0]
DefaultDimensions ==
    [boundingRect |-> DefaultRect, padding |-> DefaultEdgeSizes, content |-> DefaultRect]

\* BoxType
Block(styled_node) == [kind |-> "Block", node |-> styled_node]
Inline(styled_node) == [kind |-> "Inline", node |-> styled_node]
Anonymous == [kind |-> "Anonymous"]

\* LayoutBox::new
NewLayoutBox(box_type) ==
    [dimensions |-> DefaultDimensions, box_type |-> box_type, children |-> << >>]

\* a panic, with its message, in place of a result
Panic(msg) == [panic |-> msg]
IsPanic(r) == "panic" \in DOMAIN r

\* a container lookup that never reuses the trailing Anonymous box
GetInlineContainer_AlwaysNew(box) ==
    IF box.box_type.kind \in {"Inline", "Anonymous"} THEN box
    ELSE [box EXCEPT !.children = Append(@, NewLayoutBox(Anonymous))]

\* LayoutBox::get_inline_container, as the box after the call; the container
\* is the box itself when it is Inline or Anonymous, its last child otherwise
GetInlineContainer(box) ==
    IF box.box_type.kind \in {"Inline", "Anonymous"} THEN box
    ELSE IF /\ Len(box.children) > 0
            /\ box.children[Len(box.children)].box_type.kind = "Anonymous"
         THEN box
    ELSE [box EXCEPT !.children = Append(@, NewLayoutBox(Anonymous))]

\* a push that wraps an inline child in an Anonymous box under an Inline
\* parent as well
PushInline_WrapsUnderInline(box, child_box) ==
    LET b == GetInlineContainer(box)
        n == Len(b.children)
    IN  IF box.box_type.kind \in {"Inline", "Anonymous"}
        THEN [b EXCEPT !.children =
                 Append(@, [NewLayoutBox(Anonymous) EXCEPT !.children = <<child_box>>])]
        ELSE [b EXCEPT !.children[n].children = Append(@, child_box)]

\* root.get_inline_container().children.push(child_box)
PushInline(box, child_box) ==
    LET b == GetInlineContainer(box)
        n == Len(b.children)
    IN  IF box.box_type.kind \in {"Inline", "Anonymous"}
        THEN [b EXCEPT !.children = Append(@, child_box)]
        ELSE [b EXCEPT !.children[n].children = Append(@, child_box)]

RECURSIVE GenerateLayoutTree(_)

\* a loop body that gives a child with display None a box of its own
AppendChild_NoneKeepsBox(root, child) ==
    LET display == GetComputedDisplay(child)
    IN  IF display = "None"
        THEN [root EXCEPT !.children = Append(@, NewLayoutBox(Block(child)))]
        ELSE LET child_box == GenerateLayoutTree(child)
             IN  IF IsPanic(child_box) THEN child_box
                 ELSE IF display = "Block"
                      THEN [root EXCEPT !.children = Append(@, child_box)]
                      ELSE PushInline(root, child_box)

\* a loop body that builds the child's tree before it looks at its display
AppendChild_BuildsFirst(root, child) ==
    LET display   == GetComputedDisplay(child)
        child_box == GenerateLayoutTree(child)
    IN  IF IsPanic(child_box) THEN child_box
        ELSE IF display = "Block"
             THEN [root EXCEPT !.children = Append(@, child_box)]
             ELSE PushInline(root, child_box)

\* the body of the loop over styled_node.children
AppendChild(root, child) ==
    LET display == GetComputedDisplay(child)
    IN  IF display = "None" THEN root
        ELSE LET child_box == GenerateLayoutTree(child)
             IN  IF IsPanic(child_box) THEN child_box
                 ELSE IF display = "Block"
                      THEN [root EXCEPT !.children = Append(@, child_box)]
                      ELSE PushInline(root, child_box)

\* generate_layout_tree
GenerateLayoutTree(styled_node) ==
    LET display == GetComputedDisplay(styled_node)
        F[i \in 0..Len(styled_node.children)] ==
            IF i = 0
            THEN NewLayoutBox(IF display = "Block" THEN Block(styled_node)
                              ELSE Inline(styled_node))
            ELSE IF IsPanic(F[i - 1]) THEN F[i - 1]
            ELSE AppendChild(F[i - 1], styled_node.children[i])
    IN  IF display = "None" THEN Panic("Root has diplay none")
        ELSE F[Len(styled_node.children)]

---------------------------------------------------------------------------
(* Documents and stylesheets of the box tree construction *)

\* the sequences of trees with n nodes in all, over the given element kinds
ForestsOf(kinds, max) ==
    LET F[n \in 0..max] ==
            IF n = 0 THEN {<< >>}
            ELSE UNION {{<<new_element(k.tag_type, k.attributes, c)>> \o f :
                            k \in kinds, c \in F[m - 1], f \in F[n - m]} :
                        m \in 1..n}
    IN  F

\* the trees with at most max nodes
TreesOf(kinds, max) ==
    LET F == ForestsOf(kinds, max)
    IN  UNION {{new_element(k.tag_type, k.attributes, c) : k \in kinds, c \in F[n - 1]} :
               n \in 1..max}

ClassN == <<"n">>
SelN   == new_css_selector(None, <<ClassN>>, None)

TreeKinds ==
    { [tag_type |-> "div",  attributes |-> EmptyMap],
      [tag_type |-> "span", attributes |-> EmptyMap],
      [tag_type |-> "div",  attributes |-> [class |-> ClassN]] }

TreeSheets ==
    { <<new_css_rule(<<SelN>>, <<new_css_declaration("display", Keyword("none"), FALSE)>>)>>,
      <<new_css_rule(<<SelN>>, <<new_css_declaration("display", Keyword("inline"), FALSE)>>)>> }

IdleElement == [tag_type |-> "html", attributes |-> EmptyMap]

InitTree ==
    /\ IdleParser
    /\ element = IdleElement
    /\ pc = "parsed"
    /\ \E t \in TreesOf(TreeKinds, MaxTreeNodes) : dom = Some(t)
    /\ stylesheet \in TreeSheets
    /\ matched_rules = << >> /\ rule_i = 0 /\ decl_i = 0
    /\ specified_values = EmptyMap /\ specified_is_important = EmptyMap
    /\ lookup = None
    /\ styled = None /\ layout_root = None /\ build = "debug"
    /\ IdleMatch

\* parse_to_layout: generate_styled_node
StyleTree ==
    /\ pc = "parsed"
    /\ styled' = Some(GenerateStyledNode(Unwrap(dom), stylesheet))
    /\ pc' = "styled"
    /\ UNCHANGED <<parserVars, element, matchVars, cascadeVars, dom, layout_root, build>>

\* parse_to_layout: generate_layout_tree
BuildTree ==
    /\ pc = "styled"
    /\ LET r == GenerateLayoutTree(Unwrap(styled))
       IN  /\ layout_root' = Some(r)
           /\ pc' = IF IsPanic(r) THEN "panicked" ELSE "built"
    /\ UNCHANGED <<parserVars, element, matchVars, cascadeVars, dom, styled, build>>

NextTree == StyleTree \/ BuildTree

SpecTree == InitTree /\ [][NextTree]_vars

---------------------------------------------------------------------------
(* Properties of the box tree construction *)

\* every box of a box tree
RECURSIVE AllBoxes(_)
AllBoxes(box) ==
    {box} \cup UNION {AllBoxes(box.children[i]) : i \in 1..Len(box.children)}

\* a sequence of boxes with each Anonymous box replaced by its children
RECURSIVE FlattenAnonymous(_)
FlattenAnonymous(boxes) ==
    IF Len(boxes) = 0 THEN << >>
    ELSE (IF boxes[1].box_type.kind = "Anonymous" THEN boxes[1].children
          ELSE <<boxes[1]>>) \o FlattenAnonymous(Tail(boxes))

\* the children of a styled node whose computed display is not None
RECURSIVE Displayed(_)
Displayed(children) ==
    IF Len(children) = 0 THEN << >>
    ELSE (IF GetComputedDisplay(children[1]) = "None" THEN << >> ELSE <<children[1]>>)
         \o Displayed(Tail(children))

\* C7: under a Block box, the boxes of the displayed children of its styled
\* node appear in document order, Block children as direct children and
\* every maximal run of Inline children inside one Anonymous box that stands
\* at the run's position: no Anonymous box is empty or holds another kind of
\* box, and no two Anonymous boxes are neighbours.
C7_InlineGrouping ==
    pc = "built" =>
        \A b \in AllBoxes(Unwrap(layout_root)) :
            b.box_type.kind = "Block" =>
                LET kids == b.children
                    flat == FlattenAnonymous(kids)
                    vis  == Displayed(b.box_type.node.children)
                IN  /\ Len(flat) = Len(vis)
                    /\ \A i \in 1..Len(flat) :
                          /\ flat[i].box_type.kind = GetComputedDisplay(vis[i])
                          /\ flat[i].box_type.node = vis[i]
                    /\ \A i \in 1..Len(kids) :
                          IF kids[i].box_type.kind = "Anonymous"
                          THEN /\ Len(kids[i].children) >= 1
                               /\ \A j \in 1..Len(kids[i].children) :
                                     kids[i].children[j].box_type.kind = "Inline"
                               /\ i < Len(kids) =>
                                     kids[i + 1].box_type.kind # "Anonymous"
                          ELSE kids[i].box_type.kind = "Block"

\* children [Block, Inline, Inline, Block] under a Block root give
\* [Block, Anonymous(Inline, Inline), Block]
C7_Witness ==
    /\ pc = "built"
    /\ LET root == Unwrap(layout_root)
           kids == Unwrap(styled).children
       IN  /\ root.box_type.kind = "Block"
           /\ Len(kids) = 4
           /\ [i \in 1..4 |-> GetComputedDisplay(kids[i])]
                 = <<"Block", "Inline", "Inline", "Block">>
           /\ Len(root.children) = 3
           /\ [i \in 1..3 |-> root.children[i].box_type.kind]
                 = <<"Block", "Anonymous", "Block">>
           /\ Len(root.children[2].children) = 2

\* a single Inline child gives one Anonymous child
C7_WitnessSingle ==
    /\ pc = "built"
    /\ LET root == Unwrap(layout_root)
       IN  /\ root.box_type.kind = "Block"
           /\ Len(Unwrap(styled).children) = 1
           /\ GetComputedDisplay(Unwrap(styled).children[1]) = "Inline"
           /\ Len(root.children) = 1
           /\ root.children[1].box_type.kind = "Anonymous"
           /\ Len(root.children[1].children) = 1

\* the positions of the nodes of a styled tree, as sequences of child indices
RECURSIVE PathsOf(_)
PathsOf(node) ==
    {<< >>} \cup UNION {{<<i>> \o q : q \in PathsOf(node.children[i])} :
                        i \in 1..Len(node.children)}

RECURSIVE NodeAt(_, _)
NodeAt(node, path) ==
    IF Len(path) = 0 THEN node ELSE NodeAt(node.children[path[1]], Tail(path))

\* the styled tree without the subtree at a position other than the root
RECURSIVE RemoveAt(_, _)
RemoveAt(node, path) ==
    LET i == path[1]
        n == Len(node.children)
    IN  IF Len(path) = 1
        THEN [node EXCEPT !.children =
                 SubSeq(node.children, 1, i - 1) \o SubSeq(node.children, i + 1, n)]
        ELSE [node EXCEPT !.children[i] = RemoveAt(node.children[i], Tail(path))]

\* a box tree as its boxes: their kinds, the element and the property map
\* each refers to, their dimensions and their order
RECURSIVE BoxesOf(_)
BoxesOf(box) ==
    [kind       |-> box.box_type.kind,
     styled     |-> IF box.box_type.kind = "Anonymous" THEN None
                    ELSE Some(<<box.box_type.node.node.node_type,
                                box.box_type.node.specified_values>>),
     dimensions |-> box.dimensions,
     children   |-> [i \in 1..Len(box.children) |-> BoxesOf(box.children[i])]]

\* the number of boxes of a box tree that refer to a styled node
RECURSIVE StyledBoxCount(_)
StyledBoxCount(box) ==
    LET F[i \in 0..Len(box.children)] ==
            IF i = 0 THEN 0 ELSE F[i - 1] + StyledBoxCount(box.children[i])
    IN  (IF box.box_type.kind = "Anonymous" THEN 0 ELSE 1) + F[Len(box.children)]

\* the number of nodes of a styled tree that are neither below the root with
\* display None nor inside the subtree of such a node
RECURSIVE DisplayedCount(_)
DisplayedCount(node) ==
    LET vis == Displayed(node.children)
        F[i \in 0..Len(vis)] ==
            IF i = 0 THEN 0 ELSE F[i - 1] + DisplayedCount(vis[i])
    IN  1 + F[Len(vis)]

\* the positions, other than the root, of the nodes with display None
NonePaths(node) ==
    {q \in PathsOf(node) : Len(q) > 0 /\ GetComputedDisplay(NodeAt(node, q)) = "None"}

\* C8: a child with computed display None and its subtree get no box: the
\* construction succeeds whenever the root is displayed, the boxes that refer
\* to a styled node are as many as the nodes outside such subtrees, and the
\* box tree is the one built from the styled tree without that child.
C8_DisplayNoneExcluded ==
    pc \in {"built", "panicked"} =>
        LET tree == Unwrap(styled)
        IN  GetComputedDisplay(tree) # "None" =>
                /\ pc = "built"
                /\ StyledBoxCount(Unwrap(layout_root)) = DisplayedCount(tree)
                /\ \A q \in NonePaths(tree) :
                      BoxesOf(GenerateLayoutTree(RemoveAt(tree, q)))
                          = BoxesOf(Unwrap(layout_root))

\* a child with display None that has a child of its own stands between two
\* Inline siblings, which share one Anonymous box
C8_Witness ==
    /\ pc = "built"
    /\ LET root == Unwrap(layout_root)
           kids == Unwrap(styled).children
       IN  /\ root.box_type.kind = "Block"
           /\ Len(kids) = 3
           /\ [i \in 1..3 |-> GetComputedDisplay(kids[i])]
                 = <<"Inline", "None", "Inline">>
           /\ Len(kids[2].children) = 1
           /\ Len(root.children) = 1
           /\ root.children[1].box_type.kind = "Anonymous"
           /\ Len(root.children[1].children) = 2

---------------------------------------------------------------------------
(* layout.rs: geometry *)

(***************************************************************************)
(* The fields of Rect and EdgeSizes are u32.  A u32 v is written as the    *)
(* 32-bit two's complement integer with the same bits: v itself below      *)
(* 2^31, v - 2^32 from 2^31 on, so that a wrapping sum or difference is    *)
(* the integer sum or difference.  A build with overflow checks (debug)    *)
(* panics where a build without them (release) wraps.                      *)
(***************************************************************************)
Builds == {"debug", "release"}

\* a < b as u32
ULess(a, b) ==
    IF (a >= 0) = (b >= 0) THEN a < b ELSE a >= 0

\* a - b on u32
USub(a, b, mode) ==
    IF ULess(a, b) /\ mode = "debug"
    THEN Panic("attempt to subtract with overflow")
    ELSE [v |-> a - b]

\* a + b on u32: the sum wraps when it passes 2^32
UAdd(a, b, mode) ==
    IF /\ \/ a < 0 /\ b < 0
          \/ (a < 0) # (b < 0) /\ a + b >= 0
       /\ mode = "debug"
    THEN Panic("attempt to add with overflow")
    ELSE [v |-> a + b]

\* a - b - c, left to right
USub3(a, b, c, mode) ==
    LET d == USub(a, b, mode)
    IN  IF IsPanic(d) THEN d ELSE USub(d.v, c, mode)

\* a + b + c, left to right
UAdd3(a, b, c, mode) ==
    LET d == UAdd(a, b, mode)
    IN  IF IsPanic(d) THEN d ELSE UAdd(d.v, c, mode)

IsDimension(o) == IsSome(o) /\ Unwrap(o).kind = "Dimension"

\* LayoutBox::get_styled_node
GetStyledNode(box) ==
    IF box.box_type.kind \in {"Block", "Inline"} THEN box.box_type.node
    ELSE Panic("Box type unsupported")

\* layout_block_width that panics on a `width` that is not a Dimension
LayoutBlockWidth_WidthMustBeDimension(box, container, mode) ==
    LET style   == GetStyledNode(box)
        padding == GetComputedValue(style, "padding")
        width   == GetComputedValue(style, "width")
    IN  IF ~IsDimension(padding) THEN Panic("Padding value unsupported")
        ELSE IF ~IsDimension(width) THEN Panic("Width value unsupported")
        ELSE
        LET paddingValue == Unwrap(padding).n
            widthValue   == Unwrap(width).n
            contentWidth == USub3(widthValue, paddingValue, paddingValue, mode)
        IN  IF IsPanic(contentWidth) THEN contentWidth
            ELSE [box EXCEPT !.dimensions.padding.left = paddingValue,
                             !.dimensions.padding.right = paddingValue,
                             !.dimensions.boundingRect.width = widthValue,
                             !.dimensions.content.width = contentWidth.v]

\* LayoutBox::layout_block_width
LayoutBlockWidth(box, container, mode) ==
    LET style   == GetStyledNode(box)
        padding == GetComputedValue(style, "padding")
        width   == GetComputedValue(style, "width")
    IN  IF ~IsDimension(padding) THEN Panic("Padding value unsupported")
        ELSE
        LET paddingValue == Unwrap(padding).n
            widthValue ==
                IF IsDimension(width) THEN [v |-> Unwrap(width).n]
                ELSE USub3(container.boundingRect.width, container.padding.left,
                           container.padding.right, mode)
        IN  IF IsPanic(widthValue) THEN widthValue
            ELSE
            LET contentWidth == USub3(widthValue.v, paddingValue, paddingValue, mode)
            IN  IF IsPanic(contentWidth) THEN contentWidth
                ELSE [box EXCEPT !.dimensions.padding.left = paddingValue,
                                 !.dimensions.padding.right = paddingValue,
                                 !.dimensions.boundingRect.width = widthValue.v,
                                 !.dimensions.content.width = contentWidth.v]

\* layout_block_position that places every box at the top of its container's
\* content area, whatever was laid out before it
LayoutBlockPosition_NoStacking(box, container, mode) ==
    LET style   == GetStyledNode(box)
        padding == GetComputedValue(style, "padding")
    IN  IF ~IsDimension(padding) THEN Panic("Padding value unsupported")
        ELSE
        LET paddingValue == Unwrap(padding).n
            x == UAdd(container.boundingRect.x, container.padding.left, mode)
            y == UAdd(container.boundingRect.y, container.padding.top, mode)
        IN  IF IsPanic(x) THEN x
            ELSE IF IsPanic(y) THEN y
            ELSE [box EXCEPT !.dimensions.padding.top = paddingValue,
                             !.dimensions.padding.bottom = paddingValue,
                             !.dimensions.boundingRect.x = x.v,
                             !.dimensions.boundingRect.y = y.v]

\* LayoutBox::layout_block_position
LayoutBlockPosition(box, container, mode) ==
    LET style   == GetStyledNode(box)
        padding == GetComputedValue(style, "padding")
    IN  IF ~IsDimension(padding) THEN Panic("Padding value unsupported")
        ELSE
        LET paddingValue == Unwrap(padding).n
            x == UAdd(container.boundingRect.x, container.padding.left, mode)
            y == UAdd3(container.boundingRect.y, container.padding.top,
                       container.content.height, mode)
        IN  IF IsPanic(x) THEN x
            ELSE IF IsPanic(y) THEN y
            ELSE [box EXCEPT !.dimensions.padding.top = paddingValue,
                             !.dimensions.padding.bottom = paddingValue,
                             !.dimensions.boundingRect.x = x.v,
                             !.dimensions.boundingRect.y = y.v]

RECURSIVE Layout(_, _, _)

\* LayoutBox::layout_block_children
LayoutBlockChildren(box, container, mode) ==
    LET F[i \in 0..Len(box.children)] ==
            IF i = 0 THEN box
            ELSE IF IsPanic(F[i - 1]) THEN F[i - 1]
            ELSE LET self  == F[i - 1]
                     child == Layout(self.children[i], self.dimensions, mode)
                 IN  IF IsPanic(child) THEN child
                     ELSE LET h == UAdd(self.dimensions.content.height,
                                        child.dimensions.boundingRect.height, mode)
                          IN  IF IsPanic(h) THEN h
                              ELSE [self EXCEPT !.children[i] = child,
                                                !.dimensions.content.height = h.v]
    IN  F[Len(box.children)]

\* layout_block_height that always shrinks to fit, whatever `height` says
LayoutBlockHeight_ShrinkToFit(box, container, mode) ==
    LET height == UAdd3(box.dimensions.padding.top, box.dimensions.content.height,
                        box.dimensions.padding.bottom, mode)
    IN  IF IsPanic(height) THEN height
        ELSE [box EXCEPT !.dimensions.boundingRect.height = height.v]

\* LayoutBox::layout_block_height
LayoutBlockHeight(box, container, mode) ==
    LET computed_height == GetComputedValue(GetStyledNode(box), "height")
        height ==
            IF IsDimension(computed_height) THEN [v |-> Unwrap(computed_height).n]
            ELSE UAdd3(box.dimensions.padding.top, box.dimensions.content.height,
                       box.dimensions.padding.bottom, mode)
    IN  IF IsPanic(height) THEN height
        ELSE [box EXCEPT !.dimensions.boundingRect.height = height.v]

\* layout_block that lays the children out before the box has its position
LayoutBlock_ChildrenFirst(box, container, mode) ==
    LET w == LayoutBlockWidth(box, container, mode)
    IN  IF IsPanic(w) THEN w
        ELSE LET c == LayoutBlockChildren(w, container, mode)
             IN  IF IsPanic(c) THEN c
                 ELSE LET p == LayoutBlockPosition(c, container, mode)
                      IN  IF IsPanic(p) THEN p
                          ELSE LayoutBlockHeight(p, container, mode)

\* LayoutBox::layout_block
LayoutBlock(box, container, mode) ==
    LET w == LayoutBlockWidth(box, container, mode)
    IN  IF IsPanic(w) THEN w
        ELSE LET p == LayoutBlockPosition(w, container, mode)
             IN  IF IsPanic(p) THEN p
                 ELSE LET c == LayoutBlockChildren(p, container, mode)
                      IN  IF IsPanic(c) THEN c
                          ELSE LayoutBlockHeight(c, container, mode)

\* layout that leaves an Inline or Anonymous box as it is
Layout_SkipsInline(box, container, mode) ==
    IF box.box_type.kind = "Block" THEN LayoutBlock(box, container, mode)
    ELSE box

\* LayoutBox::layout
Layout(box, container, mode) ==
    IF box.box_type.kind = "Block" THEN LayoutBlock(box, container, mode)
    ELSE Panic("not yet implemented")

---------------------------------------------------------------------------
(* Documents and stylesheet of the layout *)

ContainerWidth == 800
ContainerHeight == 600

\* the Dimensions main hands to layout
Container ==
    [boundingRect |-> [x |-> 0, y |-> 0, width |-> ContainerWidth,
                       height |-> ContainerHeight],
     padding |-> DefaultEdgeSizes,
     content |-> DefaultRect]

Px(n) == Dimension(n, "px")

LayoutClasses == {<<"a">>, <<"b">>, <<"c">>, <<"d">>}

LayoutKinds ==
    {[tag_type |-> "div", attributes |-> EmptyMap]}
    \cup {[tag_type |-> "div", attributes |-> [class |-> c]] : c \in LayoutClasses}

ClassRule(class, declarations) ==
    new_css_rule(<<new_css_selector(None, <<class>>, None)>>, declarations)

LayoutSheet ==
    << ClassRule(<<"a">>, <<new_css_declaration("padding", Px(10), FALSE),
                            new_css_declaration("width", Px(100), FALSE)>>),
       ClassRule(<<"b">>, <<new_css_declaration("height", Px(50), FALSE)>>),
       ClassRule(<<"c">>, <<new_css_declaration("height", Px(30), FALSE),
                            new_css_declaration("padding", Px(20), FALSE)>>),
       ClassRule(<<"d">>, <<new_css_declaration("padding", Px(60), FALSE),
                            new_css_declaration("width", Px(100), FALSE)>>) >>

InitLayout ==
    /\ IdleParser
    /\ element = IdleElement
    /\ pc = "parsed"
    /\ \E t \in TreesOf(LayoutKinds, MaxLayoutNodes) : dom = Some(t)
    /\ stylesheet = LayoutSheet
    /\ matched_rules = << >> /\ rule_i = 0 /\ decl_i = 0
    /\ specified_values = EmptyMap /\ specified_is_important = EmptyMap
    /\ lookup = None
    /\ styled = None /\ layout_root = None /\ build = "debug"
    /\ IdleMatch

\* main: layout_root.layout(&Dimensions {..})
LayoutRoot ==
    /\ pc = "built"
    /\ \E mode \in Builds :
          LET r == Layout(Unwrap(layout_root), Container, mode)
          IN  /\ build' = mode
              /\ layout_root' = Some(r)
              /\ pc' = IF IsPanic(r) THEN "panicked" ELSE "laid_out"
    /\ UNCHANGED <<parserVars, element, matchVars, cascadeVars, dom, styled>>

NextLayout == StyleTree \/ BuildTree \/ LayoutRoot

SpecLayout == InitLayout /\ [][NextLayout]_vars

---------------------------------------------------------------------------
(* Claims about the geometry *)

\* the u32 written rep has the integer value n
U32Is(rep, n) == n >= 0 /\ rep = n

LaidOut == pc = "laid_out"

\* the Block boxes of the tree that layout returned
LaidOutBlocks ==
    {b \in AllBoxes(Unwrap(layout_root)) : b.box_type.kind = "Block"}

ComputedPadding(box) == GetComputedValue(box.box_type.node, "padding")
ComputedWidth(box) == GetComputedValue(box.box_type.node, "width")

\* C9: after layout, a Block box with Dimension padding p and Dimension
\* width w has all four paddings equal to p, boundingRect.width equal to w
\* whatever the container's width, and content.width equal to w - 2p.
C9_BoxModelArithmetic ==
    LaidOut =>
        \A b \in LaidOutBlocks :
            IsDimension(ComputedPadding(b)) /\ IsDimension(ComputedWidth(b)) =>
                LET p == Unwrap(ComputedPadding(b)).n
                    w == Unwrap(ComputedWidth(b)).n
                    d == b.dimensions
                IN  /\ d.padding.left = p /\ d.padding.right = p
                    /\ d.padding.top = p /\ d.padding.bottom = p
                    /\ d.boundingRect.width = w
                    /\ U32Is(d.content.width, w - 2 * p)

\* padding 10 and width 100 in the 800 wide container: 10/10/100/80
C9_Witness ==
    /\ LaidOut
    /\ \E b \in LaidOutBlocks :
          /\ ComputedPadding(b) = Some(Px(10))
          /\ ComputedWidth(b) = Some(Px(100))
          /\ b.dimensions.padding.left = 10 /\ b.dimensions.padding.right = 10
          /\ b.dimensions.boundingRect.width = 100
          /\ b.dimensions.content.width = 80

\* a box whose two paddings exceed its width: laid out by a build without
\* overflow checks, its content.width is 2^32 + w - 2p
C9_Underflow ==
    /\ LaidOut /\ build = "release"
    /\ \E b \in LaidOutBlocks :
          /\ ComputedPadding(b) = Some(Px(60))
          /\ ComputedWidth(b) = Some(Px(100))
          /\ b.dimensions.content.width = 0 - 20

\* the same box under a build with overflow checks: layout panics
C9_UnderflowPanics ==
    /\ pc = "panicked" /\ build = "debug"
    /\ layout_root = Some(Panic("attempt to subtract with overflow"))

RECURSIVE SumHeights(_, _)
\* the sum of boundingRect.height of the first k boxes
SumHeights(boxes, k) ==
    IF k = 0 THEN 0
    ELSE SumHeights(boxes, k - 1) + boxes[k].dimensions.boundingRect.height

AllChildrenBlock(box) ==
    \A i \in 1..Len(box.children) : box.children[i].box_type.kind = "Block"

\* C10: after layout of a Block box whose children are all Block boxes, each
\* child's x is the parent's x plus its left padding, each child's y is the
\* parent's y plus its top padding plus the heights of the children before
\* it, and the parent's content.height is the sum of its children's heights.
C10_VerticalStacking ==
    LaidOut =>
        \A b \in LaidOutBlocks :
            AllChildrenBlock(b) =>
                LET d == b.dimensions
                IN  /\ \A k \in 1..Len(b.children) :
                          LET c == b.children[k].dimensions.boundingRect
                          IN  /\ c.x = d.boundingRect.x + d.padding.left
                              /\ c.y = d.boundingRect.y + d.padding.top
                                         + SumHeights(b.children, k - 1)
                    /\ d.content.height = SumHeights(b.children, Len(b.children))

\* children of heights 50 and 30 at offsets 0 and 50, content height 80
C10_Witness ==
    /\ LaidOut
    /\ \E b \in LaidOutBlocks :
          /\ Len(b.children) = 2 /\ AllChildrenBlock(b)
          /\ b.children[1].dimensions.boundingRect.height = 50
          /\ b.children[2].dimensions.boundingRect.height = 30
          /\ b.children[1].dimensions.boundingRect.y = b.dimensions.boundingRect.y
          /\ b.children[2].dimensions.boundingRect.y
                = b.dimensions.boundingRect.y + 50
          /\ b.dimensions.content.height = 80

\* a padded parent below an earlier sibling: its child starts inside the padding
C10_WitnessNested ==
    /\ LaidOut
    /\ \E b \in LaidOutBlocks :
          /\ b.dimensions.boundingRect.y > 0 /\ b.dimensions.padding.top > 0
          /\ Len(b.children) > 0
          /\ b.children[1].dimensions.boundingRect.y
                = b.dimensions.boundingRect.y + b.dimensions.padding.top
          /\ b.children[1].dimensions.boundingRect.x
                = b.dimensions.boundingRect.x + b.dimensions.padding.left
          /\ b.children[1].dimensions.boundingRect.x > 0

---------------------------------------------------------------------------
(* The document of main, with the elements layout does not support *)

Id1 == <<"1">>
Id2 == <<"2">>
ClassText == <<"t", "e", "x", "t">>
ClassKP == <<"k", "p">>
ClassKW == <<"k", "w">>
ClassKH == <<"k", "h">>

\* <div id='1'>, <div id='2'>, <div class='text'> of main; a span; and
\* divs whose padding, width or height is declared with a keyword
GeometryKinds ==
    { [tag_type |-> "div",  attributes |-> [id |-> Id1]],
      [tag_type |-> "div",  attributes |-> [id |-> Id2]],
      [tag_type |-> "div",  attributes |-> [class |-> ClassText]],
      [tag_type |-> "span", attributes |-> EmptyMap],
      [tag_type |-> "div",  attributes |-> [class |-> ClassKP]],
      [tag_type |-> "div",  attributes |-> [class |-> ClassKW]],
      [tag_type |-> "div",  attributes |-> [class |-> ClassKH]] }

IdRule(id, declarations) ==
    new_css_rule(<<new_css_selector(None, << >>, Some(id))>>, declarations)

\* the stylesheet of main, followed by the keyword rules
GeometrySheet ==
    << IdRule(Id1, <<new_css_declaration("padding", Px(20), FALSE),
                     new_css_declaration("background", Rgb(20, 200, 20), FALSE)>>),
       IdRule(Id2, <<new_css_declaration("height", Px(100), FALSE),
                     new_css_declaration("background", Rgb(0, 70, 180), FALSE)>>),
       ClassRule(ClassText, <<new_css_declaration("width", Px(100), FALSE),
                              new_css_declaration("background", Rgb(0, 0, 0), FALSE),
                              new_css_declaration("padding", Px(16), FALSE)>>),
       ClassRule(ClassKP, <<new_css_declaration("padding", Keyword("auto"), FALSE)>>),
       ClassRule(ClassKW, <<new_css_declaration("width", Keyword("auto"), FALSE)>>),
       ClassRule(ClassKH, <<new_css_declaration("height", Keyword("auto"), FALSE)>>) >>

InitGeometry ==
    /\ IdleParser
    /\ element = IdleElement
    /\ pc = "parsed"
    /\ \E t \in TreesOf(GeometryKinds, MaxGeometryNodes) : dom = Some(t)
    /\ stylesheet = GeometrySheet
    /\ matched_rules = << >> /\ rule_i = 0 /\ decl_i = 0
    /\ specified_values = EmptyMap /\ specified_is_important = EmptyMap
    /\ lookup = None
    /\ styled = None /\ layout_root = None /\ build = "debug"
    /\ IdleMatch

SpecGeometry == InitGeometry /\ [][NextLayout]_vars

ComputedHeight(box) == GetComputedValue(box.box_type.node, "height")

Div1 == [tag_type |-> "div", attributes |-> [id |-> Id1]]
Div2 == [tag_type |-> "div", attributes |-> [id |-> Id2]]
DivText == [tag_type |-> "div", attributes |-> [class |-> ClassText]]

\* <div id="1"><div id="2"></div></div>
NestedDocument ==
    new_element("div", Div1.attributes, <<new_element("div", Div2.attributes, << >>)>>)

\* the document of main
MainDocument ==
    new_element("div", Div1.attributes,
                <<new_element("div", Div2.attributes, << >>),
                  new_element("div", DivText.attributes, << >>)>>)

\* C11: after layout a Block box's boundingRect.height is its `height`
\* Dimension when it has one, whatever its children add up to, and otherwise
\* padding.top + content.height + padding.bottom; in the nested document the
\* box of id 2 is at y 20 with height 100.
C11_BlockHeight ==
    LaidOut =>
        /\ \A b \in LaidOutBlocks :
              LET d == b.dimensions
              IN  IF IsDimension(ComputedHeight(b))
                  THEN d.boundingRect.height = Unwrap(ComputedHeight(b)).n
                  ELSE d.boundingRect.height
                         = d.padding.top + d.content.height + d.padding.bottom
        /\ dom \in {Some(NestedDocument), Some(MainDocument)} =>
              LET box2 == Unwrap(layout_root).children[1].dimensions.boundingRect
              IN  box2.y = 20 /\ box2.height = 100

\* the nested document laid out: id 2 at y 20, height 100, and its parent
\* shrunk to fit with height 20 + 100 + 20
C11_Witness ==
    /\ LaidOut /\ dom = Some(NestedDocument)
    /\ Unwrap(layout_root).children[1].dimensions.boundingRect.y = 20
    /\ Unwrap(layout_root).children[1].dimensions.boundingRect.height = 100
    /\ Unwrap(layout_root).dimensions.boundingRect.height = 140

\* an explicit height smaller than what the children add up to
C11_WitnessOverflowing ==
    /\ LaidOut
    /\ \E b \in LaidOutBlocks :
          /\ ComputedHeight(b) = Some(Px(100))
          /\ b.dimensions.content.height = 200
          /\ b.dimensions.boundingRect.height = 100

\* an explicit height larger than what the children add up to
C11_WitnessRoomy ==
    /\ LaidOut
    /\ \E b \in LaidOutBlocks :
          /\ ComputedHeight(b) = Some(Px(100))
          /\ b.dimensions.content.height = 32
          /\ b.dimensions.boundingRect.height = 100

---------------------------------------------------------------------------
(* get_computed_display on the nodes of a styled tree *)

DisplayKinds ==
    { [tag_type |-> "div",  attributes |-> EmptyMap],
      [tag_type |-> "span", attributes |-> EmptyMap],
      [tag_type |-> "p",    attributes |-> EmptyMap] }

DisplayValues ==
    {Keyword("none"), Keyword("inline"), Keyword("block"), Keyword("inline-block"),
     Px(10)}

TagRule(tag, declarations) ==
    new_css_rule(<<new_css_selector(Some(tag), << >>, None)>>, declarations)

\* at most one `display` rule for span and at most one for p
DisplaySheets ==
    LET RulesFor(tag) ==
            {<< >>} \cup {<<TagRule(tag, <<new_css_declaration("display", v, FALSE)>>)>> :
                            v \in DisplayValues}
    IN  {a \o b : a \in RulesFor("span"), b \in RulesFor("p")}

InitDisplay ==
    /\ IdleParser
    /\ element = IdleElement
    /\ pc = "parsed"
    /\ \E t \in TreesOf(DisplayKinds, MaxDisplayNodes) : dom = Some(t)
    /\ stylesheet \in DisplaySheets
    /\ matched_rules = << >> /\ rule_i = 0 /\ decl_i = 0
    /\ specified_values = EmptyMap /\ specified_is_important = EmptyMap
    /\ lookup = None
    /\ styled = None /\ layout_root = None /\ build = "debug"
    /\ IdleMatch

\* one call of get_computed_display on a node of the styled tree
ComputeDisplay ==
    /\ pc = "styled"
    /\ \E path \in PathsOf(Unwrap(styled)) :
          lookup' = Some([path |-> path,
                          result |-> GetComputedDisplay(NodeAt(Unwrap(styled), path))])
    /\ pc' = "displayed"
    /\ UNCHANGED <<parserVars, element, matchVars, stylesheet, matched_rules, rule_i, decl_i,
                   specified_values, specified_is_important, layoutVars>>

NextDisplay == StyleTree \/ BuildTree \/ ComputeDisplay

SpecDisplay == InitDisplay /\ [][NextDisplay]_vars

\* the node get_computed_display was called on
DisplayedNode == NodeAt(Unwrap(styled), Unwrap(lookup).path)

IsSpan(styled_node) ==
    /\ styled_node.node.node_type.kind = "Element"
    /\ styled_node.node.node_type.tag_type = "span"

\* the resolved `display` of a node: its map's value, else the default
DisplayValueOf(styled_node) ==
    IF "display" \in DOMAIN styled_node.specified_values
    THEN styled_node.specified_values["display"]
    ELSE DefaultValue("display")

Built == pc = "built"

\* the boxes of the tree generate_layout_tree returned that refer to a node
StyledBoxes ==
    {b \in AllBoxes(Unwrap(layout_root)) : b.box_type.kind \in {"Block", "Inline"}}

\* how many positions of a sequence hold a member of S
Count(seq, S) == Cardinality({i \in 1..Len(seq) : seq[i] \in S})

IsSpanBox(box) == box.box_type.kind = "Inline" /\ IsSpan(box.box_type.node)

\* C12: a span has computed display Inline whatever its property map says
\* about `display`; in the box tree every span child of a node with a box
\* has an Inline box of its own, and no Block box refers to a span.
C12_SpanIsInline ==
    /\ pc = "displayed" /\ IsSpan(DisplayedNode) => Unwrap(lookup).result = "Inline"
    /\ Built =>
          \A b \in StyledBoxes :
              /\ b.box_type.kind = "Block" => ~IsSpan(b.box_type.node)
              /\ Count(FlattenAnonymous(b.children),
                       {c \in Range(FlattenAnonymous(b.children)) : IsSpanBox(c)})
                    = Count(b.box_type.node.children,
                            {c \in Range(b.box_type.node.children) : IsSpan(c)})

\* a span with display: none asked for its display
C12_Witness ==
    /\ pc = "displayed" /\ IsSpan(DisplayedNode)
    /\ DisplayValueOf(DisplayedNode) = Keyword("none")
    /\ Unwrap(lookup).result = "Inline"

\* a span with display: block below a div: it sits in an Anonymous box
C12_WitnessBox ==
    /\ Built
    /\ \E b \in StyledBoxes :
          /\ b.box_type.kind = "Block" /\ Len(b.children) = 1
          /\ b.children[1].box_type.kind = "Anonymous"
          /\ \E c \in Range(b.children[1].children) :
                IsSpanBox(c) /\ DisplayValueOf(c.box_type.node) = Keyword("block")

\* a span with display: none as the root: the tree is built, rooted Inline
C12_WitnessRoot ==
    /\ Built
    /\ IsSpanBox(Unwrap(layout_root))
    /\ DisplayValueOf(Unwrap(layout_root).box_type.node) = Keyword("none")


\* C13: for a node that is not a span, get_computed_display is Inline
\* exactly when the resolved `display` is the keyword inline, None exactly
\* when it is the keyword none, and Block in every other case: no
\* declaration, another keyword, a value that is not a keyword.
C13_DisplayMapping ==
    pc = "displayed" /\ ~IsSpan(DisplayedNode) =>
        LET value  == DisplayValueOf(DisplayedNode)
            result == Unwrap(lookup).result
        IN  /\ result = "Inline" <=> value = Keyword("inline")
            /\ result = "None" <=> value = Keyword("none")
            /\ result = "Block" <=> value \notin {Keyword("inline"), Keyword("none")}
            /\ result \in {"Inline", "None", "Block"}

\* a p that no rule gives a `display`: Block
C13_Witness ==
    /\ pc = "displayed" /\ ~IsSpan(DisplayedNode)
    /\ "display" \notin DOMAIN DisplayedNode.specified_values
    /\ Unwrap(lookup).result = "Block"

\* a p whose `display` is a Dimension: Block
C13_WitnessNotKeyword ==
    /\ pc = "displayed" /\ ~IsSpan(DisplayedNode)
    /\ DisplayValueOf(DisplayedNode) = Px(10)
    /\ Unwrap(lookup).result = "Block"

\* display: inline-block is Block
C13_WitnessInlineBlock ==
    /\ pc = "displayed" /\ ~IsSpan(DisplayedNode)
    /\ DisplayValueOf(DisplayedNode) = Keyword("inline-block")
    /\ Unwrap(lookup).result = "Block"

C13_WitnessNone ==
    /\ pc = "displayed" /\ ~IsSpan(DisplayedNode)
    /\ DisplayValueOf(DisplayedNode) = Keyword("none")
    /\ Unwrap(lookup).result = "None"

C13_WitnessInline ==
    /\ pc = "displayed" /\ ~IsSpan(DisplayedNode)
    /\ DisplayValueOf(DisplayedNode) = Keyword("inline")
    /\ Unwrap(lookup).result = "Inline"


\* the root of the styled tree has computed display None: it is not a span
\* and its resolved `display` is the keyword none
RootIsNone ==
    /\ ~IsSpan(Unwrap(styled))
    /\ DisplayValueOf(Unwrap(styled)) = Keyword("none")

\* C14: generate_layout_tree panics exactly when the styled node it is
\* called on as the root has computed display None; a node with display
\* None below the root never makes it panic.
C14_RootNoneIsFatal ==
    [][pc = "styled" /\ pc' \in {"built", "panicked"} =>
          /\ pc' = "panicked" <=> RootIsNone
          /\ RootIsNone => layout_root' = Some(Panic("Root has diplay none"))]_vars

\* a p with display: none as the root: no box tree
C14_Witness ==
    /\ pc = "panicked" /\ RootIsNone
    /\ layout_root = Some(Panic("Root has diplay none"))

\* a p with display: none below the root, with a child of its own: the tree
\* is built without it
C14_WitnessChild ==
    /\ Built /\ ~RootIsNone
    /\ \E q \in PathsOf(Unwrap(styled)) :
          /\ Len(q) = 1
          /\ ~IsSpan(NodeAt(Unwrap(styled), q))
          /\ DisplayValueOf(NodeAt(Unwrap(styled), q)) = Keyword("none")
          /\ Len(NodeAt(Unwrap(styled), q).children) > 0
    /\ Unwrap(layout_root).children = << >>


\* the box tree about to be laid out has a box that is not a Block box
HasUnsupportedBox ==
    \E b \in AllBoxes(Unwrap(layout_root)) : b.box_type.kind # "Block"

\* a Block box of the tree about to be laid out has an Inline styled child
HasInlineChild ==
    \E b \in AllBoxes(Unwrap(layout_root)) :
        /\ b.box_type.kind = "Block"
        /\ \E c \in Range(b.box_type.node.children) : GetComputedDisplay(c) = "Inline"

\* C15: layout of a box tree that holds an Inline or Anonymous box panics,
\* in particular when a Block box has an Inline styled child; a layout that
\* completes has laid out Block boxes only.
C15_InlineLayoutIsFatal ==
    [][pc = "built" /\ pc' # pc =>
          /\ HasUnsupportedBox => pc' = "panicked"
          /\ HasInlineChild => pc' = "panicked"
          /\ pc' = "laid_out" =>
                \A b \in AllBoxes(Unwrap(layout_root')) : b.box_type.kind = "Block"]_vars

\* a div whose only child is a span: layout reaches the Anonymous box
C15_Witness ==
    /\ pc = "panicked"
    /\ layout_root = Some(Panic("not yet implemented"))
    /\ Len(Unwrap(styled).children) = 1
    /\ ~IsSpan(Unwrap(styled)) /\ IsSpan(Unwrap(styled).children[1])

\* a span two levels down, the only child of the root's only child
C15_WitnessDeep ==
    /\ pc = "panicked"
    /\ layout_root = Some(Panic("not yet implemented"))
    /\ ~IsSpan(Unwrap(styled))
    /\ Len(Unwrap(styled).children) = 1
    /\ ~IsSpan(Unwrap(styled).children[1])
    /\ Len(Unwrap(styled).children[1].children) = 1
    /\ IsSpan(Unwrap(styled).children[1].children[1])


\* each laid out Block box with the Dimensions it was laid out in: Container
\* for the root, the parent's for another box (the parent's content.height
\* and boundingRect.height are those of the end of its own layout)
LaidOutIn ==
    {<<Container, Unwrap(layout_root)>>}
    \cup UNION {{<<b.dimensions, b.children[i]>> : i \in 1..Len(b.children)} :
                b \in LaidOutBlocks}

\* C16 as stated: a computed padding, width or height that is not a
\* Dimension is fatal, so every box of a completed layout has a Dimension
\* for each of the three.
C16_NonDimensionIsFatal ==
    LaidOut =>
        \A b \in LaidOutBlocks :
            /\ IsDimension(ComputedPadding(b))
            /\ IsDimension(ComputedWidth(b))
            /\ IsDimension(ComputedHeight(b))

\* a Block box of the tree about to be laid out has a padding that is not a
\* Dimension
HasKeywordPadding ==
    \E b \in AllBoxes(Unwrap(layout_root)) :
        b.box_type.kind = "Block" /\ ~IsDimension(ComputedPadding(b))

\* C16 amended: only padding is fatal.  Layout panics when a Block box has
\* a padding that is not a Dimension; a width or a height that is not a
\* Dimension never makes it panic (without overflow checks, layout of Block
\* boxes panics for no other reason than a padding), and the box then gets
\* the container's width less the container's paddings, in u32 arithmetic,
\* and the height padding.top + content.height + padding.bottom.
C16_OnlyPaddingIsFatal ==
    /\ [][pc = "built" /\ pc' # pc =>
             /\ HasKeywordPadding => pc' = "panicked"
             /\ build' = "release" =>
                   (pc' = "panicked" <=> HasKeywordPadding \/ HasUnsupportedBox)]_vars
    /\ [](LaidOut =>
             \A pair \in LaidOutIn :
                 LET c == pair[1]
                     d == pair[2].dimensions
                 IN  /\ IsDimension(ComputedPadding(pair[2]))
                     /\ ~IsDimension(ComputedWidth(pair[2])) =>
                           d.boundingRect.width
                              = c.boundingRect.width - c.padding.left - c.padding.right
                     /\ ~IsDimension(ComputedHeight(pair[2])) =>
                           d.boundingRect.height
                              = d.padding.top + d.content.height + d.padding.bottom)

\* a box declared width: auto inside the padded div of main: laid out,
\* 800 - 20 - 20 wide
C16_Witness ==
    /\ LaidOut
    /\ \E pair \in LaidOutIn :
          /\ "width" \in DOMAIN pair[2].box_type.node.specified_values
          /\ ComputedWidth(pair[2]) = Some(Keyword("auto"))
          /\ pair[1].padding.left = 20
          /\ pair[2].dimensions.boundingRect.width = 760

\* a box declared height: auto with a child of height 100: laid out, 100 high
C16_WitnessHeight ==
    /\ LaidOut
    /\ \E b \in LaidOutBlocks :
          /\ "height" \in DOMAIN b.box_type.node.specified_values
          /\ ComputedHeight(b) = Some(Keyword("auto"))
          /\ b.dimensions.boundingRect.height = 100

\* a box declared padding: auto: layout panics
C16_WitnessPadding ==
    /\ pc = "panicked"
    /\ layout_root = Some(Panic("Padding value unsupported"))

---------------------------------------------------------------------------
(* The style resolver on whole documents *)

StyleKinds ==
    { [tag_type |-> "html", attributes |-> EmptyMap],
      [tag_type |-> "div",  attributes |-> EmptyMap],
      [tag_type |-> "p",    attributes |-> EmptyMap] }

ColorWhite == Keyword("#fff")
ColorBlack == Keyword("#000")

RuleDivWhite == TagRule("div", <<new_css_declaration("color", ColorWhite, FALSE)>>)
RuleHtmlBlack == TagRule("html", <<new_css_declaration("color", ColorBlack, FALSE)>>)

StyleRules ==
    { RuleDivWhite, RuleHtmlBlack,
      TagRule("html", <<new_css_declaration("padding", Px(10), TRUE),
                        new_css_declaration("background", ColorBlack, FALSE)>>),
      TagRule("div", <<new_css_declaration("padding", Px(20), FALSE)>>) }

StyleSheets == SeqsUpTo(StyleRules, MaxRules)

InitStyle ==
    /\ IdleParser
    /\ element = IdleElement
    /\ pc = "parsed"
    /\ \E t \in TreesOf(StyleKinds, MaxStyleNodes) : dom = Some(t)
    /\ stylesheet \in StyleSheets
    /\ matched_rules = << >> /\ rule_i = 0 /\ decl_i = 0
    /\ specified_values = EmptyMap /\ specified_is_important = EmptyMap
    /\ lookup = None
    /\ styled = None /\ layout_root = None /\ build = "debug"
    /\ IdleMatch

SpecStyle == InitStyle /\ [][NextTree]_vars

\* the stylesheet and the document of test_generated_styled_tree
TestSheet == <<RuleDivWhite, RuleHtmlBlack>>
TestDocument == new_element("html", EmptyMap, <<new_element("div", EmptyMap, << >>)>>)

\* the rules with a selector that matches the element itself
RulesMatching(elem) ==
    {r \in Range(stylesheet) : \E sel \in Range(r.selectors) : Matches(elem, sel)}

\* C17: every entry of a node's property map is a declaration of a rule one
\* of whose selectors matches that node itself, so a node no rule matches
\* has an empty map whatever its ancestors have; html {color:#000} and
\* div {color:#fff} give the html root #000 and its div child #fff.
C17_NoInheritance ==
    IsSome(styled) =>
        /\ \A q \in PathsOf(Unwrap(styled)) :
              LET n == NodeAt(Unwrap(styled), q)
              IN  \A p \in DOMAIN n.specified_values :
                      \E r \in RulesMatching(n.node.node_type) :
                          \E d \in Range(r.declarations) :
                              d.property = p /\ d.value = n.specified_values[p]
        /\ stylesheet = TestSheet /\ dom = Some(TestDocument) =>
              /\ Unwrap(styled).specified_values = [color |-> ColorBlack]
              /\ Unwrap(styled).children[1].specified_values = [color |-> ColorWhite]

\* the tree of the test, and under a styled html root a p with an empty map
C17_Witness ==
    /\ IsSome(styled)
    /\ stylesheet = TestSheet /\ dom = Some(TestDocument)
    /\ Unwrap(styled).specified_values = [color |-> ColorBlack]
    /\ Unwrap(styled).children[1].specified_values = [color |-> ColorWhite]

C17_WitnessEmpty ==
    /\ IsSome(styled)
    /\ "padding" \in DOMAIN Unwrap(styled).specified_values
    /\ \E i \in 1..Len(Unwrap(styled).children) :
          /\ Unwrap(styled).children[i].node.node_type.tag_type = "p"
          /\ Unwrap(styled).children[i].specified_values = EmptyMap

---------------------------------------------------------------------------
(* parser/mod.rs: the character stream *)

(***************************************************************************)
(* A String is the sequence of its characters, each a one-character        *)
(* string; pos is the 1-based position of the next character.              *)
(***************************************************************************)
IsWhitespace(c) == c \in {" ", "\n", "\t"}

Digits == <<"0", "1", "2", "3", "4", "5", "6", "7", "8", "9">>

IsNumeric(c) == c \in Range(Digits)

\* eof
Eof(s, pos) == pos > Len(s)

\* starts_with: `&self.input[self.pos..] == s`
StartsWith(s, pos, prefix) == SubSeq(s, pos, Len(s)) = prefix

\* consume_while: the characters consumed and the position after them;
\* passing is the set of the characters of s on which the test is true
ConsumeWhile(s, pos, passing) ==
    LET stops == {i \in pos..Len(s) : s[i] \notin passing}
        end   == IF stops = {} THEN Len(s) + 1
                 ELSE CHOOSE i \in stops : \A j \in stops : i <= j
    IN  [pos |-> end, v |-> SubSeq(s, pos, end - 1)]

\* the member of a one-element set: Only({f(x) : x \in {e}}) is f(e), a
\* `let x = e;` whose e is written and evaluated once
Only(S) == CHOOSE x \in S : TRUE

\* consume_white_space
ConsumeWhiteSpace(s, pos) == ConsumeWhile(s, pos, {c \in Range(s) : IsWhitespace(c)}).pos

\* assert_eq!(self.consume_char(), Ok(c))
ExpectChar(s, pos, c) ==
    IF ~Eof(s, pos) /\ s[pos] = c THEN [pos |-> pos + 1]
    ELSE Panic("assertion failed: left == right")

\* str::trim
Trim(text) ==
    LET inked == {i \in 1..Len(text) : ~IsWhitespace(text[i])}
    IN  IF inked = {} THEN << >>
        ELSE SubSeq(text, CHOOSE i \in inked : \A j \in inked : i <= j,
                          CHOOSE i \in inked : \A j \in inked : i >= j)

\* str::parse::<u32> and str::parse::<f32> on a decimal numeral without sign,
\* point or exponent; any other text of the documents parsed here (empty,
\* or with a space or a letter in it) is an Err, which the caller unwraps
RECURSIVE DecimalValue(_)
DecimalValue(text) ==
    IF Len(text) = 0 THEN 0
    ELSE 10 * DecimalValue(SubSeq(text, 1, Len(text) - 1))
         + (CHOOSE d \in 0..9 : Digits[d + 1] = text[Len(text)])

ParseNumber(text) ==
    IF Len(text) > 0 /\ \A i \in 1..Len(text) : IsNumeric(text[i])
    THEN [v |-> DecimalValue(text)]
    ELSE Panic("called Result::unwrap() on an Err value")

\* Display for an integer, and for an f32 with an integer value
RECURSIVE DecimalText(_)
DecimalText(n) ==
    IF n < 10 THEN <<Digits[n + 1]>>
    ELSE DecimalText(n \div 10) \o <<Digits[(n % 10) + 1]>>

---------------------------------------------------------------------------
(* parser/css.rs *)

\* parse_identifier
ParseIdentifier(s, pos) ==
    ConsumeWhile(s, pos,
                 {chr \in Range(s) : /\ chr \notin {".", "#", "{", "}", ":", ";", ","}
                                     /\ ~IsWhitespace(chr)})

\* parse_tag; the caller has checked !eof
ParseTag(s, pos) ==
    IF s[pos] = "." \/ s[pos] = "#" THEN [pos |-> pos, v |-> None]
    ELSE LET tag_name == ConsumeWhile(s, pos,
                             {c \in Range(s) : c \notin {".", "#", "{"} /\ ~IsWhitespace(c)})
         IN  CASE tag_name.v = <<"d", "i", "v">>   -> [pos |-> tag_name.pos, v |-> Some("div")]
               [] tag_name.v = <<"p">>     -> [pos |-> tag_name.pos, v |-> Some("p")]
               [] tag_name.v = <<"h", "t", "m", "l">>  -> [pos |-> tag_name.pos, v |-> Some("html")]
               [] tag_name.v = <<"s", "t", "y", "l", "e">> -> [pos |-> tag_name.pos, v |-> Some("style")]
               [] OTHER -> Panic("The following tag type is not supported")

\* parse_selectors: the inner loop over the parts of one selector
RECURSIVE ParseSelectorParts(_, _, _, _)
ParseSelectorParts(s, pos, class, id) ==
    IF Eof(s, pos) THEN [pos |-> pos, class |-> class, id |-> id]
    ELSE CASE s[pos] = "#" ->
                  LET name == ParseIdentifier(s, pos + 1)
                  IN  ParseSelectorParts(s, name.pos, class, Some(name.v))
           [] s[pos] = "." ->
                  LET name == ParseIdentifier(s, pos + 1)
                  IN  ParseSelectorParts(s, name.pos, Append(class, name.v), id)
           [] s[pos] = "," -> [pos |-> pos + 1, class |-> class, id |-> id]
           [] OTHER -> [pos |-> pos, class |-> class, id |-> id]

\* parse_selectors: the outer loop
RECURSIVE ParseSelectorsLoop(_, _, _)
ParseSelectorsLoop(s, pos, selectors) ==
    IF Eof(s, pos) \/ s[pos] = "{" THEN [pos |-> pos, v |-> selectors]
    ELSE LET tag == ParseTag(s, pos)
         IN  IF IsPanic(tag) THEN tag
             ELSE LET parts == ParseSelectorParts(s, tag.pos, << >>, None)
                  IN  ParseSelectorsLoop(
                          s, ConsumeWhiteSpace(s, parts.pos),
                          Append(selectors,
                                 new_css_selector(tag.v, parts.class, parts.id)))

\* parse_selectors
ParseSelectors(s, pos) == ParseSelectorsLoop(s, ConsumeWhiteSpace(s, pos), << >>)


\* parse_property
ParseProperty(s, pos) ==
    LET prop_name == ParseIdentifier(s, ConsumeWhiteSpace(s, pos))
    IN  CASE prop_name.v = <<"b", "a", "c", "k", "g", "r", "o", "u", "n", "d">> -> [pos |-> prop_name.pos, v |-> "background"]
          [] prop_name.v = <<"w", "i", "d", "t", "h">>      -> [pos |-> prop_name.pos, v |-> "width"]
          [] prop_name.v = <<"h", "e", "i", "g", "h", "t">>     -> [pos |-> prop_name.pos, v |-> "height"]
          [] prop_name.v = <<"c", "o", "l", "o", "r">>      -> [pos |-> prop_name.pos, v |-> "color"]
          [] OTHER -> Panic("Following CSS property is not supported")

\* parse_value: one component of rgb( ) and the character that ends it
ParseRgbComponent(s, pos, end) ==
    LET digits == ConsumeWhile(s, pos, {c \in Range(s) : IsNumeric(c)})
        n      == ParseNumber(digits.v)
    IN  IF IsPanic(n) THEN n
        ELSE LET next == ExpectChar(s, digits.pos, end)
             IN  IF IsPanic(next) THEN next ELSE [pos |-> next.pos, v |-> n.v]

\* parse_value: the rgb( branch
ParseRgb(s, pos) ==
    LET open == ExpectChar(s, ConsumeWhile(s, pos, {c \in Range(s) : c # "("}).pos, "(")
    IN  IF IsPanic(open) THEN open
        ELSE Only({
            IF IsPanic(r) THEN r
            ELSE Only({
                IF IsPanic(g) THEN g
                ELSE Only({
                    IF IsPanic(b) THEN b
                    ELSE [pos |-> b.pos, v |-> Rgb(r.v, g.v, b.v)]
                    : b \in {ParseRgbComponent(s, g.pos, ")")} })
                : g \in {ParseRgbComponent(s, r.pos, ",")} })
            : r \in {ParseRgbComponent(s, open.pos, ",")} })

\* parse_value
ParseValue(s, pos0) ==
    LET pos == ConsumeWhiteSpace(s, pos0)
    IN  IF StartsWith(s, pos, <<"r", "g", "b", "(">>) THEN ParseRgb(s, pos)
        ELSE IF Eof(s, pos) THEN Panic("called Option::unwrap() on a None value")
        ELSE IF IsNumeric(s[pos])
        THEN LET number == ConsumeWhile(s, pos, {c \in Range(s) : c # "p" /\ c # "%"})
                 value  == ParseNumber(number.v)
                 unit   == ConsumeWhile(s, number.pos, {c \in Range(s) : c # ";"})
             IN  IF IsPanic(value) THEN value
                 ELSE [pos |-> unit.pos,
                       v   |-> Dimension(value.v,
                                         IF unit.v = <<"%">> THEN "percent" ELSE "px")]
        ELSE LET value == ConsumeWhile(s, pos, {c \in Range(s) : c # ";"})
             IN  [pos |-> value.pos, v |-> Keyword(value.v)]

\* parse_declarations: the loop
RECURSIVE ParseDeclarationsLoop(_, _, _)
ParseDeclarationsLoop(s, pos, declarations) ==
    IF Eof(s, pos) THEN Panic("called Option::unwrap() on a None value")
    ELSE IF s[pos] = "}" THEN [pos |-> pos, v |-> declarations]
    ELSE Only({
        IF IsPanic(property) THEN property
        ELSE
        LET colon == ExpectChar(s, ConsumeWhiteSpace(s, property.pos), ":")
        IN  IF IsPanic(colon) THEN colon
            ELSE Only({
                IF IsPanic(value) THEN value
                ELSE
                LET important    == ConsumeWhile(s, ConsumeWhiteSpace(s, value.pos),
                                                 {x \in Range(s) : x # ";"})
                    is_important == Trim(important.v) = <<"!", "i", "m", "p", "o", "r", "t", "a", "n", "t">>
                    semicolon    == ExpectChar(s, important.pos, ";")
                IN  IF IsPanic(semicolon) THEN semicolon
                    ELSE ParseDeclarationsLoop(
                             s, ConsumeWhiteSpace(s, semicolon.pos),
                             Append(declarations,
                                    new_css_declaration(property.v, value.v,
                                                        is_important)))
                : value \in {ParseValue(s, colon.pos)} })
        : property \in {ParseProperty(s, pos)} })

\* parse_declarations
ParseDeclarations(s, pos) == ParseDeclarationsLoop(s, ConsumeWhiteSpace(s, pos), << >>)

\* parse_rule
ParseRule(s, pos) ==
    Only({
        IF IsPanic(selectors) THEN selectors
        ELSE
        LET open == ExpectChar(s, selectors.pos, "{")
        IN  IF IsPanic(open) THEN open
            ELSE Only({
                IF IsPanic(declarations) THEN declarations
                ELSE
                LET close == ExpectChar(s, ConsumeWhiteSpace(s, declarations.pos), "}")
                IN  IF IsPanic(close) THEN close
                    ELSE [pos |-> close.pos,
                          v   |-> new_css_rule(selectors.v, declarations.v)]
                : declarations \in {ParseDeclarations(s, open.pos)} })
        : selectors \in {ParseSelectors(s, pos)} })

\* CSSParser::parse: the loop
RECURSIVE ParseRules(_, _, _)
ParseRules(s, pos, rules) ==
    IF Eof(s, pos) THEN [rules |-> rules]
    ELSE Only({
        IF IsPanic(rule) THEN rule
        ELSE ParseRules(s, ConsumeWhiteSpace(s, rule.pos), Append(rules, rule.v))
        : rule \in {ParseRule(s, pos)} })

\* CSSParser::new(input).parse()
Parse(text) == ParseRules(text, ConsumeWhiteSpace(text, 1), << >>)

---------------------------------------------------------------------------
(* cssom.rs: Display *)

\* slice::join
RECURSIVE Join(_, _)
Join(strings, sep) ==
    IF Len(strings) = 0 THEN << >>
    ELSE IF Len(strings) = 1 THEN strings[1]
    ELSE strings[1] \o sep \o Join(Tail(strings), sep)

\* Display for TagType
TagToString(tag) ==
    CASE tag = "html"  -> <<"h", "t", "m", "l">>
      [] tag = "div"   -> <<"d", "i", "v">>
      [] tag = "p"     -> <<"p">>
      [] tag = "style" -> <<"s", "t", "y", "l", "e">>

\* Display for CSSSelector
SelectorToString(sel) ==
    LET tag   == IF IsSome(sel.tag) THEN TagToString(Unwrap(sel.tag)) ELSE << >>
        id    == IF IsSome(sel.id) THEN <<"#">> \o Unwrap(sel.id) ELSE << >>
        class == IF Len(sel.class) = 0 THEN << >>
                 ELSE <<".">> \o Join(sel.class, <<".">>)
    IN  Join(SelectSeq(<<tag, id, class>>, LAMBDA x : Len(x) > 0), << >>)

\* Display for CSSProperty
PropertyToString(property) ==
    CASE property = "display"    -> <<"d", "i", "s", "p", "l", "a", "y">>
      [] property = "background" -> <<"b", "a", "c", "k", "g", "r", "o", "u", "n", "d">>
      [] property = "padding"    -> <<"p", "a", "d", "d", "i", "n", "g">>
      [] property = "color"      -> <<"c", "o", "l", "o", "r">>
      [] property = "height"     -> <<"h", "e", "i", "g", "h", "t">>
      [] property = "width"      -> <<"w", "i", "d", "t", "h">>

\* Display for Unit
UnitToString(unit) == IF unit = "px" THEN <<"p", "x">> ELSE <<"%">>

\* Display for CSSValue
ValueToString(value) ==
    CASE value.kind = "Dimension" -> DecimalText(value.n) \o UnitToString(value.unit)
      [] value.kind = "Keyword"   -> value.s
      [] value.kind = "Color" /\ value.data.kind = "Hex" -> value.data.value
      [] value.kind = "Color" /\ value.data.kind = "Rgb" ->
             <<"r", "g", "b", "(">> \o DecimalText(value.data.r) \o <<",", " ">>
                      \o DecimalText(value.data.g) \o <<",", " ">>
                      \o DecimalText(value.data.b) \o <<")">>

\* Display for CSSDeclaration
DeclarationToString(declaration) ==
    PropertyToString(declaration.property) \o <<":", " ">>
        \o ValueToString(declaration.value)
        \o (IF declaration.is_important THEN <<" ", "!", "i", "m", "p", "o", "r", "t", "a", "n", "t">> ELSE << >>) \o <<";">>

\* Display for CSSRule
RuleToString(rule) ==
    Join([i \in 1..Len(rule.selectors) |-> SelectorToString(rule.selectors[i])],
         <<",", "\n">>)
        \o <<" ", "{", "\n">>
        \o Join([i \in 1..Len(rule.declarations) |->
                    <<"\t">> \o DeclarationToString(rule.declarations[i]) \o <<"\n">>],
                << >>)
        \o <<"}", "\n">>

\* Display for Stylesheet
StylesheetToString(rules) ==
    Join([i \in 1..Len(rules) |-> RuleToString(rules[i])], << >>)

\* utils.rs: minify
Minify(css) == SelectSeq(css, LAMBDA c : ~IsWhitespace(c))

---------------------------------------------------------------------------
(* Stylesheet texts, parsed and printed *)

\* the three rules of the parser's test
TextRuleHello ==
    <<"d", "i", "v", "#", "i", "d", ".", "h", "e", "l", "l", "o", " ", "{", "\n", " ", " ", " ", " ", "h", "e", "i", "g", "h", "t", ":", " ", "1", "0", "0", "%", ";", "\n", " ", " ", " ", " ", "b", "a", "c", "k", "g", "r", "o", "u", "n", "d", ":", " ", "p", "u", "r", "p", "l", "e", ";", "\n", " ", " ", " ", " ", "c", "o", "l", "o", "r", ":", " ", "#", "f", "f", "f", "f", "f", "f", " ", "!", "i", "m", "p", "o", "r", "t", "a", "n", "t", ";", "\n", "}", "\n", "\n">>
TextRuleMyDiv ==
    <<"d", "i", "v", ".", "m", "y", "-", "d", "i", "v", ",", "\n", "d", "i", "v", ".", "m", "y", "-", "d", "i", "v", "-", "2", " ", "{", "\n", " ", " ", " ", " ", "w", "i", "d", "t", "h", ":", " ", "1", "0", "0", "p", "x", ";", "\n", " ", " ", " ", " ", "h", "e", "i", "g", "h", "t", ":", " ", "1", "0", "0", "%", ";", "\n", " ", " ", " ", " ", "b", "a", "c", "k", "g", "r", "o", "u", "n", "d", ":", " ", "b", "l", "u", "e", ";", "\n", " ", " ", " ", " ", "c", "o", "l", "o", "r", ":", " ", "#", "f", "f", "f", "f", "f", "f", ";", "\n", "}", "\n", "\n">>
TextRuleHtml == <<"h", "t", "m", "l", " ", "{", "\n", " ", " ", " ", " ", "b", "a", "c", "k", "g", "r", "o", "u", "n", "d", ":", " ", "g", "r", "e", "e", "n", ";", "\n", "}", "\n">>

\* the #2 rule of main
TextRuleMain == <<"#", "2", " ", "{", "\n", " ", " ", " ", " ", "h", "e", "i", "g", "h", "t", ":", " ", "1", "0", "0", "p", "x", ";", "\n", " ", " ", " ", " ", "b", "a", "c", "k", "g", "r", "o", "u", "n", "d", ":", " ", "r", "g", "b", "(", "0", ",", "7", "0", ",", "1", "8", "0", ")", ";", "\n", "}", "\n">>

\* more rules of the same grammar
TextRuleTight == <<"p", "{", "c", "o", "l", "o", "r", ":", "r", "e", "d", ";", "}">>
TextRuleEmpty == <<"s", "t", "y", "l", "e", " ", "{", " ", "}", "\n">>
TextRuleImportantWidth == <<"d", "i", "v", " ", "{", "\n", " ", " ", " ", " ", "w", "i", "d", "t", "h", ":", " ", "1", "0", "0", "p", "x", " ", "!", "i", "m", "p", "o", "r", "t", "a", "n", "t", ";", "\n", "}", "\n">>
TextRuleImportantPercent == <<"d", "i", "v", " ", "{", " ", "h", "e", "i", "g", "h", "t", ":", " ", "5", "0", "%", " ", "!", "i", "m", "p", "o", "r", "t", "a", "n", "t", ";", " ", "}", "\n">>
TextRuleClassThenId == <<".", "h", "e", "l", "l", "o", "#", "i", "d", " ", "{", "\n", " ", " ", " ", " ", "c", "o", "l", "o", "r", ":", " ", "r", "e", "d", ";", "\n", "}", "\n">>
TextRuleTags == <<"h", "t", "m", "l", ",", " ", "d", "i", "v", " ", "{", "\n", " ", " ", " ", " ", "c", "o", "l", "o", "r", ":", " ", "r", "e", "d", ";", "\n", "}", "\n">>

\* a text that stops right after `rgb(`
TextRuleRgbCut == <<"p", "{", "c", "o", "l", "o", "r", ":", "r", "g", "b", "(">>

CssRuleTexts ==
    { TextRuleHello, TextRuleMyDiv, TextRuleHtml, TextRuleMain, TextRuleTight,
      TextRuleEmpty, TextRuleImportantWidth, TextRuleImportantPercent,
      TextRuleClassThenId, TextRuleTags, TextRuleRgbCut }

\* the input of the parser's test, after its leading white space
TestInput == <<"\n", " ", " ", " ", " ">> \o TextRuleHello \o TextRuleMyDiv \o TextRuleHtml

CssTexts ==
    {Join(rules, << >>) : rules \in SeqsUpTo(CssRuleTexts, MaxCssRules)}
    \cup {TestInput}

InitCss ==
    /\ input \in CssTexts
    /\ printed = None
    /\ element = IdleElement
    /\ pc = "text"
    /\ stylesheet = << >>
    /\ matched_rules = << >> /\ rule_i = 0 /\ decl_i = 0
    /\ specified_values = EmptyMap /\ specified_is_important = EmptyMap
    /\ lookup = None
    /\ IdleMatch /\ IdleLayout

\* CSSParser::new(input).parse()
ParseCss ==
    /\ pc = "text"
    /\ \E parsed \in {Parse(input)} :
          IF IsPanic(parsed)
          THEN pc' = "panicked" /\ UNCHANGED stylesheet
          ELSE pc' = "parsed_css" /\ stylesheet' = parsed.rules
    /\ UNCHANGED <<parserVars, element, matchVars, matched_rules, rule_i, decl_i,
                   specified_values, specified_is_important, lookup, layoutVars>>

\* parsed.to_string()
PrintCss ==
    /\ pc = "parsed_css"
    /\ printed' = Some(StylesheetToString(stylesheet))
    /\ pc' = "printed"
    /\ UNCHANGED <<input, element, matchVars, cascadeVars, layoutVars>>

NextCss == ParseCss \/ PrintCss

SpecCss == InitCss /\ [][NextCss]_vars

\* C18: every stylesheet text of the grammar is parsed, and the parsed
\* stylesheet prints as the text itself once white space is taken out of
\* both.
C18_RoundTrip ==
    /\ pc # "panicked"
    /\ pc = "printed" => Minify(Unwrap(printed)) = Minify(input)

\* the input of the parser's test is printed as it was written
C18_Witness ==
    /\ pc = "printed" /\ input = TestInput
    /\ Len(stylesheet) = 3
    /\ Minify(Unwrap(printed)) = Minify(input)

\* `width: 100px !important;` is printed without !important
C18_ImportantLost ==
    /\ pc = "printed" /\ input = TextRuleImportantWidth
    /\ Unwrap(printed) = <<"d", "i", "v", " ", "{", "\n", "\t", "w", "i", "d", "t", "h", ":", " ", "1", "0", "0", "p", "x", ";", "\n", "}", "\n">>

\* `height: 50% !important;` is printed as 50px
C18_PercentLost ==
    /\ pc = "printed" /\ input = TextRuleImportantPercent
    /\ Unwrap(printed) = <<"d", "i", "v", " ", "{", "\n", "\t", "h", "e", "i", "g", "h", "t", ":", " ", "5", "0", "p", "x", ";", "\n", "}", "\n">>

\* `.hello#id` is printed as #id.hello
C18_Reordered ==
    /\ pc = "printed" /\ input = TextRuleClassThenId
    /\ Unwrap(printed) = <<"#", "i", "d", ".", "h", "e", "l", "l", "o", " ", "{", "\n", "\t", "c", "o", "l", "o", "r", ":", " ", "r", "e", "d", ";", "\n", "}", "\n">>

\* `html, div` is not parsed
C18_TagsPanic ==
    pc = "panicked" /\ input = TextRuleTags


\* rep is the u32 a - b - c, and neither subtraction goes below zero
IsDifference(rep, a, b, c) ==
    ~ULess(a, b) /\ ~ULess(a - b, c) /\ rep = a - b - c

\* C19: a Block box that no matching rule gives a `width` is laid out with
\* boundingRect.width = container.boundingRect.width - container.padding.left
\* - container.padding.right and with content.width = that width less its own
\* left and right padding.
C19_WidthFallback ==
    LaidOut =>
        \A pair \in LaidOutIn :
            LET c == pair[1]
                d == pair[2].dimensions
            IN  "width" \notin DOMAIN pair[2].box_type.node.specified_values =>
                    /\ IsDifference(d.boundingRect.width, c.boundingRect.width,
                                    c.padding.left, c.padding.right)
                    /\ IsDifference(d.content.width, d.boundingRect.width,
                                    d.padding.left, d.padding.right)

\* the document of main: #2 inside #1 is 800 - 20 - 20 wide, #1 is 800 wide
\* with a content width of 760
C19_Witness ==
    /\ LaidOut /\ dom = Some(MainDocument)
    /\ Unwrap(layout_root).dimensions.boundingRect.width = 800
    /\ Unwrap(layout_root).dimensions.content.width = 760
    /\ Unwrap(layout_root).children[1].dimensions.boundingRect.width = 760
    /\ Unwrap(layout_root).children[1].dimensions.content.width = 760

\* <div class='text'><div id='1'><div id='1'></div></div></div>
NarrowDocument ==
    new_element("div", DivText.attributes,
        <<new_element("div", Div1.attributes,
            <<new_element("div", Div1.attributes, << >>)>>)>>)

\* the innermost box is 68 - 20 - 20 = 28 wide with paddings of 20: without
\* overflow checks its content.width is 2^32 - 12
C19_Underflow ==
    /\ LaidOut /\ build = "release" /\ dom = Some(NarrowDocument)
    /\ LET inner == Unwrap(layout_root).children[1].children[1].dimensions
       IN  inner.boundingRect.width = 28 /\ inner.content.width = 0 - 12

\* with overflow checks the same layout panics
C19_UnderflowPanics ==
    /\ pc = "panicked" /\ build = "debug" /\ dom = Some(NarrowDocument)
    /\ layout_root = Some(Panic("attempt to subtract with overflow"))

---------------------------------------------------------------------------
(* style.rs: rules with several selectors *)

\* the longest selector list of a rule of the cascade below
MaxGroupSelectors == 2

GroupSelectors == {SelTagP, SelTagDiv, SelA, SelAB, SelId}

\* rules with any list of selectors, the empty one included, declaring red
GroupRules ==
    {new_css_rule(s, <<new_css_declaration("color", Keyword("red"), FALSE)>>) :
        s \in SeqsUpTo(GroupSelectors, MaxGroupSelectors)}

\* rules of one selector declaring blue
SingleRules ==
    {new_css_rule(<<s>>, <<new_css_declaration("color", Keyword("blue"), FALSE)>>) :
        s \in GroupSelectors}

\* Stylesheet::new of a rule with a selector list, alone or next to a rule of
\* one selector, and an element to resolve
InitGroup ==
    /\ IdleParser
    /\ element \in CascadeElements
    /\ pc = "build"
    /\ \E g \in GroupRules : \E r \in SingleRules :
          stylesheet \in {<<g>>, <<g, r>>, <<r, g>>}
    /\ matched_rules = << >> /\ rule_i = 0 /\ decl_i = 0
    /\ specified_values = EmptyMap /\ specified_is_important = EmptyMap
    /\ lookup = None
    /\ IdleMatch /\ IdleLayout

NextGroup == BeginCascade \/ WalkDeclaration \/ FinishCascade

SpecGroup == InitGroup /\ [][NextGroup]_vars

\* get_specified_values has collected and sorted the matching rules
Collected == pc \in {"walk", "done"} /\ element.tag_type # "style"

\* the selectors of rule k that do not match the element
OtherSelectors(k) == Range(stylesheet[k].selectors) \ MatchingSelectors(k)

\* C20: the specificity a rule with several selectors is ordered by in the
\* cascade for an element is the highest specificity among its selectors that
\* match the element, not among all its selectors; a rule none of whose
\* selectors matches, the rule with an empty selector list included, is not
\* among the rules walked and contributes no declaration to the element.
C20_HighestMatchingSelector ==
    Collected =>
        /\ Len(matched_rules) = Cardinality(MatchingRules)
        /\ \A i \in 1..Len(matched_rules) :
              \E k \in MatchingRules :
                  /\ matched_rules[i].rule = stylesheet[k]
                  /\ matched_rules[i].specificity = RuleSpecificity(k)
        /\ \A i, j \in 1..Len(matched_rules) :
              i < j => ~LexHigher(matched_rules[i].specificity,
                                  matched_rules[j].specificity)
        /\ \A p \in DOMAIN specified_values :
              \E k \in MatchingRules : \E d \in DeclsOf(k, p) :
                  specified_values[p] = stylesheet[k].declarations[d].value

\* "#test, div { color: red }" and ".a { color: blue }" on <div class='a'>:
\* the first rule counts as (0,0,1), its #test does not match, and blue wins
C20_Witness ==
    /\ Resolved
    /\ element = ElemDiv
    /\ \E k, j \in MatchingRules :
          /\ stylesheet[k].selectors = <<SelId, SelTagDiv>>
          /\ stylesheet[j].selectors = <<SelA>>
          /\ \E sel \in OtherSelectors(k) :
                /\ LexHigher(Specificity(sel), RuleSpecificity(j))
                /\ LexHigher(RuleSpecificity(j), RuleSpecificity(k))
          /\ specified_values["color"] = ValueOf(j, "color")
          /\ ValueOf(k, "color") # ValueOf(j, "color")

\* a rule two of whose selectors match with different specificities: the
\* higher of the two is the one the rule is ordered by
C20_WitnessSeveralMatch ==
    /\ Resolved
    /\ \E k \in MatchingRules : \E a, b \in MatchingSelectors(k) :
          /\ LexHigher(Specificity(a), Specificity(b))
          /\ RuleSpecificity(k) = Specificity(a)
          /\ \E i \in 1..Len(matched_rules) :
                /\ matched_rules[i].rule = stylesheet[k]
                /\ matched_rules[i].specificity = Specificity(a)

\* a rule with an empty selector list and a declaration, alone in the
\* stylesheet: the element's map stays empty
C20_WitnessEmptyList ==
    /\ Resolved
    /\ Len(stylesheet) = 1
    /\ stylesheet[1].selectors = << >>
    /\ Len(stylesheet[1].declarations) = 1
    /\ matched_rules = << >>
    /\ specified_values = EmptyMap

\* a rule with two selectors none of which matches, next to a matching rule:
\* only the matching rule's declaration is in the map
C20_WitnessNoneMatches ==
    /\ Resolved
    /\ Len(stylesheet) = 2
    /\ Len(stylesheet[1].selectors) = 2
    /\ MatchingSelectors(1) = {}
    /\ MatchingRules = {2}
    /\ specified_values["color"] = ValueOf(2, "color")
    /\ stylesheet[1].declarations[1].value # ValueOf(2, "color")

---------------------------------------------------------------------------
(* style.rs: documents with Text nodes and style elements *)

\* the most children of the root of a document below
MaxMixedChildren == 2

TextHi == new_text(<<"h", "i">>, << >>)
DivA   == new_element("div", [class |-> ClassA], << >>)
PTest  == new_element("p", [id |-> IdTest], << >>)

\* style elements, bare or carrying an id and a class, with children
StyleElements ==
    {new_element("style", a, c) :
        a \in {EmptyMap, [id |-> IdTest, class |-> ClassA]},
        c \in {<< >>, <<TextHi>>, <<DivA>>, <<TextHi, PTest>>}}

MixedDocuments ==
    {new_element("div", [class |-> ClassA], c) :
        c \in SeqsUpTo({TextHi, DivA, PTest} \cup StyleElements, MaxMixedChildren)}
    \cup StyleElements

\* a selector without tag, id or class
SelAny == new_css_selector(None, << >>, None)

RuleStyleRed == TagRule("style", <<new_css_declaration("color", Keyword("red"), FALSE)>>)
RuleIdBlue   == IdRule(IdTest, <<new_css_declaration("color", Keyword("blue"), TRUE)>>)
RuleAPadding == ClassRule(ClassA, <<new_css_declaration("padding", Px(10), FALSE)>>)
RuleAnyInline ==
    new_css_rule(<<SelAny>>, <<new_css_declaration("display", Keyword("inline"), FALSE)>>)

MixedSheets ==
    { << >>,
      <<RuleStyleRed>>,
      <<RuleAnyInline>>,
      <<RuleIdBlue, RuleAPadding>>,
      <<RuleStyleRed, RuleIdBlue, RuleAPadding, RuleAnyInline>> }

InitMixed ==
    /\ IdleParser
    /\ element = IdleElement
    /\ pc = "parsed"
    /\ \E t \in MixedDocuments : dom = Some(t)
    /\ stylesheet \in MixedSheets
    /\ matched_rules = << >> /\ rule_i = 0 /\ decl_i = 0
    /\ specified_values = EmptyMap /\ specified_is_important = EmptyMap
    /\ lookup = None
    /\ styled = None /\ layout_root = None /\ build = "debug"
    /\ IdleMatch

SpecMixed == InitMixed /\ [][StyleTree]_vars

\* the nodes of the styled tree
StyledNodes == {NodeAt(Unwrap(styled), q) : q \in PathsOf(Unwrap(styled))}

IsText(styled_node) == styled_node.node.node_type.kind = "Text"

IsStyleElement(styled_node) ==
    /\ styled_node.node.node_type.kind = "Element"
    /\ styled_node.node.node_type.tag_type = "style"

\* C21: a Text node and a style element have an empty property map under
\* every stylesheet, also one with a rule for the style tag, for an id or a
\* class the style element carries, or with a selector that matches every
\* element; the children of a style element are resolved all the same: each
\* has a styled node, and an element among them other than style has every
\* property that a rule matching it declares.
C21_TextAndStyleAreEmpty ==
    IsSome(styled) =>
        \A n \in StyledNodes :
            /\ IsText(n) \/ IsStyleElement(n) => n.specified_values = EmptyMap
            /\ IsStyleElement(n) =>
                  /\ Len(n.children) = Len(n.node.children)
                  /\ \A i \in 1..Len(n.children) :
                        LET c == n.children[i]
                        IN  /\ c.node = n.node.children[i]
                            /\ ~IsText(c) /\ ~IsStyleElement(c) =>
                                  \A r \in RulesMatching(c.node.node_type) :
                                      \A d \in Range(r.declarations) :
                                          d.property \in DOMAIN c.specified_values

\* <style id='test' class='a'> under the sheet with style, #test, .a and
\* the every-element rule has an empty map, its <div class='a'> child has
\* padding and display
C21_Witness ==
    /\ IsSome(styled)
    /\ stylesheet = <<RuleStyleRed, RuleIdBlue, RuleAPadding, RuleAnyInline>>
    /\ \E n \in StyledNodes :
          /\ IsStyleElement(n)
          /\ RulesMatching(n.node.node_type) = Range(stylesheet)
          /\ n.specified_values = EmptyMap
          /\ Len(n.children) = 1
          /\ n.children[1].node = DivA
          /\ DOMAIN n.children[1].specified_values = {"padding", "display"}

\* a Text node below a style element and one below a div, both empty, under
\* a sheet whose rule matches every element
C21_WitnessText ==
    /\ IsSome(styled)
    /\ RuleAnyInline \in Range(stylesheet)
    /\ \E n \in StyledNodes :
          /\ IsStyleElement(n)
          /\ Len(n.children) = 2
          /\ IsText(n.children[1]) /\ n.children[1].specified_values = EmptyMap
          /\ n.children[2].specified_values # EmptyMap
    /\ ~IsStyleElement(Unwrap(styled))
    /\ IsText(Unwrap(styled).children[1])
    /\ Unwrap(styled).children[1].specified_values = EmptyMap
    /\ Unwrap(styled).specified_values # EmptyMap

\* the styled tree has the shape of the document tree below node
RECURSIVE SameShape(_, _)
SameShape(styled_node, node) ==
    /\ styled_node.node = node
    /\ Len(styled_node.children) = Len(node.children)
    /\ \A i \in 1..Len(node.children) :
          SameShape(styled_node.children[i], node.children[i])

\* C22: the styled tree generate_styled_node returns has the shape of the
\* document tree: every styled node holds its document node and has one
\* styled child for each document child, in document order; the call
\* changes neither the document nor the stylesheet.
C22_StyledTreeShape ==
    /\ [](IsSome(styled) => SameShape(Unwrap(styled), Unwrap(dom)))
    /\ [][dom' = dom /\ stylesheet' = stylesheet]_vars

\* a styled document whose root has a Text child and a style child that
\* has a Text child and a p child of its own
C22_Witness ==
    /\ pc = "styled"
    /\ Unwrap(dom).children =
          <<TextHi, new_element("style", EmptyMap, <<TextHi, PTest>>)>>
    /\ Len(stylesheet) = 4
    /\ Len(Unwrap(styled).children) = 2
    /\ Unwrap(styled).children[1].node = TextHi
    /\ Len(Unwrap(styled).children[2].children) = 2
    /\ Unwrap(styled).children[2].children[2].node = PTest

---------------------------------------------------------------------------
(* layout.rs: the phases of layout_block, and a second call of layout *)

\* the most nodes of a document laid out twice
MaxRelayoutNodes == 3

InitRelayout ==
    /\ IdleParser
    /\ element = IdleElement
    /\ pc = "parsed"
    /\ \E t \in TreesOf(LayoutKinds, MaxRelayoutNodes) : dom = Some(t)
    /\ stylesheet = LayoutSheet
    /\ matched_rules = << >> /\ rule_i = 0 /\ decl_i = 0
    /\ specified_values = EmptyMap /\ specified_is_important = EmptyMap
    /\ lookup = None
    /\ styled = None /\ layout_root = None /\ build = "debug"
    /\ IdleMatch

\* layout_root.layout(&Dimensions {..}) once more, by the same build
LayoutAgain ==
    /\ pc = "laid_out"
    /\ LET r == Layout(Unwrap(layout_root), Container, build)
       IN  /\ layout_root' = Some(r)
           /\ pc' = IF IsPanic(r) THEN "panicked" ELSE "laid_out_again"
    /\ UNCHANGED <<parserVars, element, matchVars, cascadeVars, dom, styled, build>>

NextRelayout == StyleTree \/ BuildTree \/ LayoutRoot \/ LayoutAgain

SpecRelayout == InitRelayout /\ [][NextRelayout]_vars

\* the Dimensions of box b while its child i is laid out, read off the
\* tree after layout: b's own x, y, width and paddings, the heights of the
\* children before i in content.height, and boundingRect.height as it was
\* in the box before layout
DuringChild(b, before, i) ==
    [b.dimensions EXCEPT
        !.boundingRect.height = before.dimensions.boundingRect.height,
        !.content.height = SumHeights(b.children, i - 1)]

\* C23: in every box tree laid out, each child of a box is the result of
\* laying the child out against the box's final x, y, width and paddings,
\* with the box's boundingRect.height still at its value before layout and
\* content.height at the sum of the heights of the children before it; the
\* box's content.height after layout is the sum over all its children, which
\* its boundingRect.height is computed from when `height` is not a Dimension.
C23_FourPhaseOrder ==
    LaidOut =>
        LET built == GenerateLayoutTree(Unwrap(styled))
            root  == Unwrap(layout_root)
        IN  \A q \in PathsOf(root) :
                LET b      == NodeAt(root, q)
                    before == NodeAt(built, q)
                IN  /\ before.dimensions = DefaultDimensions
                    /\ \A i \in 1..Len(b.children) :
                          b.children[i] = Layout(before.children[i],
                                                 DuringChild(b, before, i), build)
                    /\ b.dimensions.content.height
                          = SumHeights(b.children, Len(b.children))
                    /\ ~IsDimension(ComputedHeight(b)) =>
                          b.dimensions.boundingRect.height
                             = b.dimensions.padding.top
                               + SumHeights(b.children, Len(b.children))
                               + b.dimensions.padding.bottom

\* a root with padding 10, its child with padding 20 and the child's child:
\* the grandchild stands at x = 30, y = 30, the child's final position plus
\* the child's padding, and is as wide as the child's content
C23_Witness ==
    /\ LaidOut
    /\ LET root == Unwrap(layout_root)
       IN  /\ Len(root.children) = 1 /\ Len(root.children[1].children) = 1
           /\ root.dimensions.padding.left = 10
           /\ root.children[1].dimensions.padding.top = 20
           /\ root.children[1].dimensions.boundingRect.x = 10
           /\ root.children[1].dimensions.boundingRect.y = 10
           /\ root.children[1].children[1].dimensions.boundingRect.x = 30
           /\ root.children[1].children[1].dimensions.boundingRect.y = 30
           /\ root.children[1].children[1].dimensions.boundingRect.width
                 = root.children[1].dimensions.content.width

\* a second child laid out when content.height already holds the height of
\* the first, while the parent's boundingRect.height ends as their sum
C23_WitnessSecondChild ==
    /\ LaidOut
    /\ LET root == Unwrap(layout_root)
       IN  /\ Len(root.children) = 2
           /\ root.children[1].dimensions.boundingRect.height = 50
           /\ root.children[2].dimensions.boundingRect.y = 50
           /\ root.children[2].dimensions.boundingRect.height = 30
           /\ root.dimensions.boundingRect.height = 80

\* C26: a second call of layout with the same container leaves the
\* Dimensions of every box of a laid-out Block box tree as the first call
\* left them.
C26_LayoutIdempotent ==
    [][pc = "laid_out" /\ pc' = "laid_out_again" => layout_root' = layout_root]_vars

\* a box without children, laid out twice: the same Dimensions both times
C26_Witness ==
    /\ pc = "laid_out_again"
    /\ Len(Unwrap(layout_root).children) = 0
    /\ Unwrap(layout_root) = Layout(GenerateLayoutTree(Unwrap(styled)), Container, build)

\* <div><div class='b'></div></div> laid out twice: the child of height 50
\* moves from y = 0 to y = 50 and the root grows from height 50 to 100
C26_WitnessMoved ==
    /\ pc = "laid_out_again"
    /\ LET root  == Unwrap(layout_root)
           first == Layout(GenerateLayoutTree(Unwrap(styled)), Container, build)
       IN  /\ Len(root.children) = 1
           /\ first.children[1].dimensions.boundingRect.y = 0
           /\ first.dimensions.content.height = 50
           /\ first.dimensions.boundingRect.height = 50
           /\ root.children[1].dimensions.boundingRect.y = 50
           /\ root.dimensions.content.height = 100
           /\ root.dimensions.boundingRect.height = 100

---------------------------------------------------------------------------
(* layout.rs: the structure of the box tree *)

KindsOf(boxes) == [i \in 1..Len(boxes) |-> boxes[i].box_type.kind]

\* C24: in every box tree generate_layout_tree returns, the root is not
\* Anonymous and an Anonymous box is a child of a Block box only, has at
\* least one child and only Inline children, and has no Anonymous box as
\* its next sibling; the children of a Block box are Block or Anonymous
\* boxes; the children of an Inline box are the boxes of its displayed
\* children themselves, in order, none of them Anonymous.
C24_BoxTreeStructure ==
    pc = "built" =>
        /\ Unwrap(layout_root).box_type.kind # "Anonymous"
        /\ \A b \in AllBoxes(Unwrap(layout_root)) :
              LET kinds == KindsOf(b.children)
              IN  /\ \A i \in 1..Len(kinds) :
                        kinds[i] = "Anonymous" =>
                            /\ b.box_type.kind = "Block"
                            /\ i < Len(kinds) => kinds[i + 1] # "Anonymous"
                  /\ b.box_type.kind = "Anonymous" =>
                        /\ Len(kinds) >= 1
                        /\ \A i \in 1..Len(kinds) : kinds[i] = "Inline"
                  /\ b.box_type.kind = "Block" =>
                        \A i \in 1..Len(kinds) : kinds[i] \in {"Block", "Anonymous"}
                  /\ b.box_type.kind = "Inline" =>
                        LET vis == Displayed(b.box_type.node.children)
                        IN  /\ Len(kinds) = Len(vis)
                            /\ \A i \in 1..Len(vis) :
                                  /\ kinds[i] = GetComputedDisplay(vis[i])
                                  /\ b.children[i].box_type.node = vis[i]

\* a Block root whose only child is a span holding a span and a div: the
\* root has one Anonymous child, the outer span's box holds an Inline and a
\* Block box directly
C24_Witness ==
    /\ pc = "built"
    /\ LET root == Unwrap(layout_root)
       IN  /\ root.box_type.kind = "Block"
           /\ KindsOf(root.children) = <<"Anonymous">>
           /\ KindsOf(root.children[1].children) = <<"Inline">>
           /\ KindsOf(root.children[1].children[1].children) = <<"Inline", "Block">>

\* an Inline root with two inline children and no Anonymous box at all
C24_WitnessInlineRoot ==
    /\ pc = "built"
    /\ LET root == Unwrap(layout_root)
       IN  /\ root.box_type.kind = "Inline"
           /\ KindsOf(root.children) = <<"Inline", "Inline">>

\* a Block root with two Anonymous children kept apart by a Block child
C24_WitnessTwoRuns ==
    /\ pc = "built"
    /\ KindsOf(Unwrap(layout_root).children) = <<"Anonymous", "Block", "Anonymous">>

---------------------------------------------------------------------------
(* style.rs: the two maps of the cascade walk *)

\* C25: all along the walk over an element's matched rules, the value map
\* and the flag map have the same keys; a flag that is true stays true, and
\* the value of a property whose flag is true changes only when the
\* declaration met is !important.
C25_ImportantIsMonotone ==
    /\ [](DOMAIN specified_values = DOMAIN specified_is_important)
    /\ [][ pc = "walk" =>
             \A p \in DOMAIN specified_is_important :
                 specified_is_important[p] =>
                     /\ p \in DOMAIN specified_is_important'
                     /\ specified_is_important'[p]
                     /\ specified_values'[p] # specified_values[p] =>
                           /\ rule_i <= Len(matched_rules)
                           /\ CurrentDeclaration.property = p
                           /\ CurrentDeclaration.is_important ]_vars

\* the walk has replaced an !important color by another !important color
\* and then met a color declaration without !important, which it skipped
C25_Witness ==
    /\ pc = "walk"
    /\ WalkedCount >= 3
    /\ LET order == CascadeOrder(matched_rules)
       IN  /\ order[WalkedCount - 2].property = "color"
           /\ order[WalkedCount - 2].is_important
           /\ order[WalkedCount - 1].property = "color"
           /\ order[WalkedCount - 1].is_important
           /\ order[WalkedCount - 1].value # order[WalkedCount - 2].value
           /\ order[WalkedCount].property = "color"
           /\ ~order[WalkedCount].is_important
           /\ order[WalkedCount].value # order[WalkedCount - 1].value
           /\ specified_values["color"] = order[WalkedCount - 1].value
           /\ specified_is_important["color"]

\* both maps hold color and display, color flagged and display not
C25_WitnessTwoKeys ==
    /\ pc = "done"
    /\ DOMAIN specified_values = {"color", "display"}
    /\ specified_is_important["color"]
    /\ ~specified_is_important["display"]

---------------------------------------------------------------------------
(* layout.rs: the subtractions of layout_block_width *)

\* C27: layout of a Block box tree with Dimension paddings never subtracts
\* below zero: no build panics with a subtraction overflow, and after
\* layout every Block box has content.width equal to boundingRect.width
\* minus its left and right paddings, none of the three wrapped.
C27_NoUnderflow ==
    /\ layout_root # Some(Panic("attempt to subtract with overflow"))
    /\ LaidOut =>
          \A b \in LaidOutBlocks :
              LET d == b.dimensions
              IN  /\ d.boundingRect.width >= 0
                  /\ U32Is(d.content.width,
                           d.boundingRect.width - d.padding.left - d.padding.right)

\* a tree whose boxes all fit: width 100 with padding 10 under a root as
\* wide as the container
C27_Witness ==
    /\ LaidOut
    /\ \A b \in LaidOutBlocks : b.dimensions.content.width >= 0
    /\ Unwrap(layout_root).dimensions.content.width = ContainerWidth
    /\ \E b \in LaidOutBlocks :
          /\ b.dimensions.boundingRect.width = 100
          /\ b.dimensions.padding.left = 10
          /\ b.dimensions.content.width = 80

\* width 100 with padding 60, build without overflow checks: content.width
\* is 2^32 - 20, and a child without `width` inherits it as its width
C27_WitnessWrapped ==
    /\ LaidOut /\ build = "release"
    /\ \E b \in LaidOutBlocks :
          /\ b.dimensions.boundingRect.width = 100
          /\ b.dimensions.padding.left = 60
          /\ b.dimensions.content.width = 0 - 20
          /\ Len(b.children) = 1
          /\ b.children[1].dimensions.boundingRect.width = 0 - 20

\* the same document, build with overflow checks: layout panics
C27_WitnessPanics ==
    /\ pc = "panicked" /\ build = "debug"
    /\ layout_root = Some(Panic("attempt to subtract with overflow"))
    /\ Unwrap(dom).node_type.attributes = [class |-> <<"d">>]
    /\ Len(Unwrap(dom).children) = 1

---------------------------------------------------------------------------
(* parser/css.rs: colours *)

\* the declarations of the parsed stylesheet
ParsedDeclarations ==
    UNION {Range(stylesheet[k].declarations) : k \in 1..Len(stylesheet)}

RgbPrefix == <<"r", "g", "b", "(">>

\* C28: a declaration value written rgb(r, g, b) and followed by `;` and
\* more input is parsed to Color(Rgb(r, g, b)): no declaration of a parsed
\* stylesheet has a Keyword that begins with `rgb(`, and the `#2` rule of
\* main has the background Rgb(0, 70, 180).
C28_RgbIsColor ==
    pc \in {"parsed_css", "printed"} =>
        /\ \A d \in ParsedDeclarations :
              d.value.kind = "Keyword" /\ Len(d.value.s) >= Len(RgbPrefix) =>
                  SubSeq(d.value.s, 1, Len(RgbPrefix)) # RgbPrefix
        /\ input = TextRuleMain =>
              stylesheet[1].declarations[2].value = Rgb(0, 70, 180)

\* the `#2` rule of main is parsed with the Keyword `rgb(0,70,180)` as its
\* background
C28_Witness ==
    /\ pc = "parsed_css"
    /\ input = TextRuleMain
    /\ stylesheet[1].declarations[2].property = "background"
    /\ stylesheet[1].declarations[2].value = Keyword(<<"r", "g", "b", "(", "0", ",", "7", "0", ",", "1", "8", "0", ")">>)

\* only an input that ends with `rgb(` takes the colour branch, which then
\* finds no number to parse
C28_WitnessCut ==
    /\ pc = "panicked"
    /\ input = TextRuleRgbCut
    /\ StartsWith(input, Len(input) - 3, RgbPrefix)
    /\ Parse(input) = Panic("called Result::unwrap() on an Err value")

=============================================================================
